---- MODULE Spec2Model ----
(***************************************************************************)
(* A model of the HPKV WebSocket client (sdk/node/src/websocket): the      *)
(* connection core (BaseWebSocketClient), the message correlator           *)
(* (MessageHandler) and the throttling manager (ThrottlingManager), with   *)
(* the socket adapters, the timers and the promise continuations they      *)
(* create.  The client is single threaded: every action below is one       *)
(* event-loop job (a caller's call, an adapter event, a timer, or a        *)
(* promise continuation) run to completion.                                *)
(***************************************************************************)
EXTENDS Integers, Sequences, FiniteSets, TLC

\* ------------------------------------------------------------------ bounds
MaxAttempts == 3      \* connection attempts (_initiateConnectionAttempt runs)
MaxCleanups == 2      \* cleanup() runs that wait for a close confirmation
MaxLoops == 2         \* reconnection cycles started
MaxRequests == 2      \* request operations called
MaxCalls == 4         \* calls the caller makes (connect, disconnect, requests, state reads)
maxReconnectAttempts == 2   \* retry.maxReconnectAttempts of the configuration
MaxTicks == 6         \* the clock stops after this many steps of Tick ms
LongTimeouts == 7     \* a caller's own timeout, in default operation timeouts
MaxBackoffs == 7      \* reconnect() runs whose delay is computed
MaxBurst == 4         \* request operations called against the throttling manager
MaxSignals == 2       \* 429 signals that open a backoff window
Horizon == 3000       \* ms over which the reconfigured manager is followed
MaxConfigs == 2       \* updateThrottlingConfig calls
MaxQueued == 3        \* request operations called against the reconfigured manager
MaxSubscribes == 3    \* subscribe() calls, each with a callback of its own
MaxWrappers == 3      \* on() calls of one adapter that create a wrapper

\* ------------------------------------------------------- program constants
CONNECTING == 0
OPEN == 1
CLOSING == 2
CLOSED == 3
DEFAULT_TIMEOUTS_OPERATION == 10000
DEFAULT_TIMEOUTS_CLEANUP == 60000
DEFAULT_THROTTLING_rateLimit == 10
NORMAL_CLOSURE == 1000
RATE_LIMITED == 429
OK == 200
FALLBACK_ERROR_CODE == 500
\* Number.MAX_SAFE_INTEGER is 2^53 - 1; TLC's integers end at 2^31 - 1, and the
\* model never issues that many requests under either value.
MAX_SAFE_INTEGER == 2147483647
ID_WRAP_MARGIN == 1000
DEFAULT_INITIAL_DELAY == 1000
DEFAULT_MAX_DELAY == 30000
jitterMs == 500

\* the clock's step, and where it stops
Tick == DEFAULT_TIMEOUTS_OPERATION
MaxNow == MaxTicks * Tick

\* ConnectionState
DISCONNECTED == "DISCONNECTED"
CONNECTING_STATE == "CONNECTING"
CONNECTED == "CONNECTED"
DISCONNECTING == "DISCONNECTING"
RECONNECTING == "RECONNECTING"
ConnectionState == {DISCONNECTED, CONNECTING_STATE, CONNECTED, DISCONNECTING, RECONNECTING}

VARIABLES
  \* BaseWebSocketClient fields
  ws,                    \* adapter id, 0 = null
  connectionPromise,     \* attempt id whose promise it is, 0 = null
  connectionState,
  reconnectAttempts,
  connectionTimeout,     \* attempt id whose timer the handle names, 0 = null
  isGracefulDisconnect,
  \* the environment of the client
  platform,              \* "node" | "browser": listener dispatch of the raw socket
  adapters,              \* Seq of [readyState, listeners, closeCalled, sent]
  attempts,              \* Seq of [promise, ws]: one per _initiateConnectionAttempt
  timers,                \* attempts whose connection timer is scheduled
  cleanups,              \* Seq of [ws, finalized, timer, stage, cancelled]
  loops,                 \* Seq of [pc, awaiting, failed]: reconnect() chains
  \* MessageHandler fields
  messageId,
  messageMap,            \* id -> PendingRequest, as a set of records
  requestLimitExceededListeners,
  onRateLimitExceeded,   \* the property the client's constructor assigns
  requests,              \* Seq of the callers' request promises
  \* ThrottlingManager fields
  throttlingConfig,
  currentRate,           \* in 1/1000 requests per second
  backoffUntil,
  backoffExponent,
  nextAvailableSlotTime,
  throttleQueue,         \* Seq of the requests whose grant is deferred
  processingQueue,
  throttleTimer,         \* the setTimeout of processThrottleQueue: [due, kind] or none
  granted,               \* Seq of the requests whose slot promise resolved, in that order
  cleanupInterval,       \* when the stale sweep runs next, 0 = null
  \* HPKVSubscriptionClient fields
  subscriptions,         \* Map callbackId -> callback, as a Seq of [id, callback] in insertion order
  callbackJobs,          \* the microtasks handleMessage queued: Seq of callbacks
  \* what the caller of the subscription client holds and sees
  registered,            \* Seq of [id, callback]: ids subscribe() returned and not yet unsubscribed
  unsubscribed,          \* the callbacks whose id the caller has passed to unsubscribe()
  notified,              \* the callbacks registered when the latest notification arrived
  invoked,               \* Seq of the callbacks invoked for the latest notification
  heard,                 \* [on, log, k]: the listener the caller registered with on(),
                         \* the events it got since the disconnect() k it watches
  \* one socket adapter taken by itself (createNodeWebSocket / createBrowserWebSocket)
  internalListeners,     \* own keys of the object: event -> Seq of [original, wrapper]
  rawListeners,          \* the underlying socket: event -> Seq of the wrappers registered
  closures,              \* Seq of [event, original]: the wrappers on() has created
  owed,                  \* [event, listener] -> how many on() calls no removal has answered
  calls,                 \* how many calls the caller has made
  asked,                 \* the caller's latest connect()/disconnect(): what it asked for
  \* time and observation
  now,
  events,                \* what the last job emitted through the emitter
  last                   \* the last job

vars == <<ws, connectionPromise, connectionState, reconnectAttempts, connectionTimeout,
          isGracefulDisconnect, platform, adapters, attempts, timers, cleanups, loops,
          messageId, messageMap, requestLimitExceededListeners, onRateLimitExceeded,
          requests, throttlingConfig, currentRate, backoffUntil, backoffExponent,
          nextAvailableSlotTime, throttleQueue, processingQueue, throttleTimer,
          granted, subscriptions, callbackJobs, registered, unsubscribed, notified,
          invoked, heard, internalListeners, rawListeners, closures, owed,
          cleanupInterval, calls, asked, now, events, last>>

\* The whole state as one record, so that a handler is a function of states
\* and a job is the composition of the handlers it runs.
St ==
  [ws |-> ws, connectionPromise |-> connectionPromise, connectionState |-> connectionState,
   reconnectAttempts |-> reconnectAttempts, connectionTimeout |-> connectionTimeout,
   isGracefulDisconnect |-> isGracefulDisconnect, platform |-> platform,
   adapters |-> adapters, attempts |-> attempts, timers |-> timers, cleanups |-> cleanups,
   loops |-> loops, messageId |-> messageId, messageMap |-> messageMap,
   requestLimitExceededListeners |-> requestLimitExceededListeners,
   onRateLimitExceeded |-> onRateLimitExceeded, requests |-> requests,
   throttlingConfig |-> throttlingConfig, currentRate |-> currentRate,
   backoffUntil |-> backoffUntil, backoffExponent |-> backoffExponent,
   nextAvailableSlotTime |-> nextAvailableSlotTime, throttleQueue |-> throttleQueue,
   processingQueue |-> processingQueue, throttleTimer |-> throttleTimer,
   granted |-> granted, subscriptions |-> subscriptions, callbackJobs |-> callbackJobs,
   registered |-> registered, unsubscribed |-> unsubscribed, notified |-> notified, invoked |-> invoked,
   heard |-> heard,
   internalListeners |-> internalListeners, rawListeners |-> rawListeners,
   closures |-> closures, owed |-> owed,
   cleanupInterval |-> cleanupInterval, calls |-> calls, asked |-> asked, now |-> now, events |-> <<>>, last |-> last,
   ok |-> TRUE, ret |-> 0]

Becomes(s) ==
  \E t \in {s} :
    /\ t.ok
    /\ ws' = t.ws
    /\ connectionPromise' = t.connectionPromise
    /\ connectionState' = t.connectionState
    /\ reconnectAttempts' = t.reconnectAttempts
    /\ connectionTimeout' = t.connectionTimeout
    /\ isGracefulDisconnect' = t.isGracefulDisconnect
    /\ platform' = t.platform
    /\ adapters' = t.adapters
    /\ attempts' = t.attempts
    /\ timers' = t.timers
    /\ cleanups' = t.cleanups
    /\ loops' = t.loops
    /\ messageId' = t.messageId
    /\ messageMap' = t.messageMap
    /\ requestLimitExceededListeners' = t.requestLimitExceededListeners
    /\ onRateLimitExceeded' = t.onRateLimitExceeded
    /\ requests' = t.requests
    /\ throttlingConfig' = t.throttlingConfig
    /\ currentRate' = t.currentRate
    /\ backoffUntil' = t.backoffUntil
    /\ backoffExponent' = t.backoffExponent
    /\ nextAvailableSlotTime' = t.nextAvailableSlotTime
    /\ throttleQueue' = t.throttleQueue
    /\ processingQueue' = t.processingQueue
    /\ internalListeners' = t.internalListeners
    /\ rawListeners' = t.rawListeners
    /\ closures' = t.closures
    /\ owed' = t.owed
    /\ throttleTimer' = t.throttleTimer
    /\ granted' = t.granted
    /\ subscriptions' = t.subscriptions
    /\ callbackJobs' = t.callbackJobs
    /\ registered' = t.registered
    /\ unsubscribed' = t.unsubscribed
    /\ notified' = t.notified
    /\ invoked' = t.invoked
    /\ heard' = t.heard
    /\ cleanupInterval' = t.cleanupInterval
    /\ calls' = t.calls
    /\ asked' = t.asked
    /\ now' = t.now
    /\ events' = t.events
    /\ last' = t.last

Range(f) == {f[i] : i \in DOMAIN f}
Max(a, b) == IF a >= b THEN a ELSE b
Min(a, b) == IF a <= b THEN a ELSE b

\* ----------------------------------------------------------- SimpleEventEmitter
\* emit(event, ...args): the listeners registered for the event are called
Emit(s, e) ==
  [s EXCEPT !.events = Append(@, e),
            !.heard.log = IF s.heard.on THEN Append(@, e) ELSE @]

\* ---------------------------------------------------------------- promises
\* A request's promise: settling a promise that is already settled does nothing.
Settle(s, r, status, error, code, by) ==
  IF s.requests[r].status # "pending" THEN s
  ELSE [s EXCEPT !.requests[r].status = status,
                 !.requests[r].error = error,
                 !.requests[r].code = code,
                 !.requests[r].settledBy = by]

\* clearTimeout(request.timer) of the entry's own timer
ClearRequestTimer(s, r) == [s EXCEPT !.requests[r].timer = FALSE]

\* ------------------------------------------------------------ MessageHandler
has(s, id) == \E e \in s.messageMap : e.id = id
getOldest(s, id) == CHOOSE e \in s.messageMap : \A f \in s.messageMap : e.id <= f.id
get(s, id) == CHOOSE e \in s.messageMap : e.id = id
delete(s, id) == [s EXCEPT !.messageMap = {e \in @ : e.id # id}]

getNextMessageIdClamped(id) ==
  IF id >= MAX_SAFE_INTEGER - ID_WRAP_MARGIN THEN MAX_SAFE_INTEGER - ID_WRAP_MARGIN ELSE id + 1

getNextMessageId(id) ==
  IF id >= MAX_SAFE_INTEGER - ID_WRAP_MARGIN THEN 1 ELSE id + 1

\* registerRequest: the timer, then messageMap.set(messageId, ...)
registerRequest(s, r, id, timeoutMs) ==
  LET actualTimeoutMs == IF timeoutMs # 0 THEN timeoutMs ELSE DEFAULT_TIMEOUTS_OPERATION
      s1 == [s EXCEPT !.requests[r].id = id,
                      !.requests[r].status = "pending",
                      !.requests[r].timer = TRUE,
                      !.requests[r].deadline = s.now + actualTimeoutMs,
                      !.requests[r].timestamp = s.now]
  IN  [s1 EXCEPT !.messageMap = {e \in @ : e.id # id} \cup {[id |-> id, req |-> r]}]

\* the timer callback of registerRequest
requestTimeout(s, r) ==
  LET s1 == ClearRequestTimer(s, r)
      id == s.requests[r].id
  IN  IF has(s1, id)
      THEN Settle(delete(s1, id), r, "rejected", "TimeoutError", 0, "timer")
      ELSE s1

\* the cancel function registerRequest returns: reject(new Error(reason))
cancel(s, r) ==
  LET id == s.requests[r].id
  IN  IF has(s, id)
      THEN Settle(delete(ClearRequestTimer(s, r), id), r, "rejected", "Error", 0, "cancel")
      ELSE s

RECURSIVE RejectAll(_, _, _, _)
RejectAll(s, entries, error, by) ==
  IF entries = {} THEN s
  ELSE LET e == CHOOSE x \in entries : TRUE
       IN  RejectAll(Settle(delete(ClearRequestTimer(s, e.req), e.id), e.req,
                            "rejected", error, 0, by),
                     entries \ {e}, error, by)

RECURSIVE RejectAllKeepsEntries(_, _, _, _)
RejectAllKeepsEntries(s, entries, error, by) ==
  IF entries = {} THEN s
  ELSE LET e == CHOOSE x \in entries : TRUE
       IN  RejectAllKeepsEntries(Settle(ClearRequestTimer(s, e.req), e.req,
                                        "rejected", error, 0, by),
                                 entries \ {e}, error, by)

cancelAllRequestsKeepsEntries(s, error) ==
  RejectAllKeepsEntries(s, s.messageMap, error, "cancelAll")

cancelAllRequests(s, error) == RejectAll(s, s.messageMap, error, "cancelAll")

cleanupStaleRequestsAtThreshold(s) ==
  LET staleThreshold == DEFAULT_TIMEOUTS_OPERATION * 3
      stale == {e \in s.messageMap : s.now - s.requests[e.req].timestamp >= staleThreshold}
  IN  RejectAll(s, stale, "TimeoutError", "sweep")

\* cleanupStaleRequests(), run by the interval initCleanupInterval sets
cleanupStaleRequests(s) ==
  LET staleThreshold == DEFAULT_TIMEOUTS_OPERATION * 3
      stale == {e \in s.messageMap : s.now - s.requests[e.req].timestamp > staleThreshold}
  IN  RejectAll(s, stale, "TimeoutError", "sweep")

\* ---------------------------------------------------------- ThrottlingManager
notify429Always(s) ==
  LET ceiling == IF s.throttlingConfig.rateLimit # 0
                 THEN s.throttlingConfig.rateLimit
                 ELSE DEFAULT_THROTTLING_rateLimit
      pow == 2 ^ s.backoffExponent
  IN  [s EXCEPT !.currentRate = Max(ceiling * 100, s.currentRate \div 2),
                !.backoffUntil = s.now + 1000 * Min(60, pow),
                !.backoffExponent = @ + 1]

notify429(s) ==
  IF s.now < s.backoffUntil THEN s
  ELSE LET ceiling == IF s.throttlingConfig.rateLimit # 0
                      THEN s.throttlingConfig.rateLimit
                      ELSE DEFAULT_THROTTLING_rateLimit
           pow == 2 ^ s.backoffExponent
       IN  [s EXCEPT !.currentRate = Max(ceiling * 100, s.currentRate \div 2),
                     !.backoffUntil = s.now + 1000 * Min(60, pow),
                     !.backoffExponent = @ + 1]

RECURSIVE notifyRequestLimitExceededListeners(_, _)
notifyRequestLimitExceededListeners(s, i) ==
  IF i > Len(s.requestLimitExceededListeners) THEN s
  ELSE notifyRequestLimitExceededListeners(
         IF s.requestLimitExceededListeners[i] = "notify429" THEN notify429(s) ELSE s, i + 1)

\* An incoming frame: [type, messageId, hasCode, code, hasError]; messageId 0
\* stands for an absent (or falsy) id.
isNotification(m) == m.type = "notification"
isErrorResponseByCode(m) == m.hasCode /\ m.code # OK
isErrorResponse(m) == (m.hasCode /\ m.code # OK) \/ m.hasError

handleMessageAnyShape(s, m) ==
  IF m.messageId = 0 THEN [s EXCEPT !.ret = FALSE]
  ELSE IF ~has(s, m.messageId) THEN [s EXCEPT !.ret = FALSE]
  ELSE LET pendingRequest == get(s, m.messageId)
           s1 == delete(ClearRequestTimer(s, pendingRequest.req), m.messageId)
       IN  [Settle(s1, pendingRequest.req, "resolved", "",
                   IF m.hasCode THEN m.code ELSE 0, "response") EXCEPT !.ret = TRUE]

\* MessageHandler.handleMessage(message); ret is the boolean it returns
handleMessage(s, m) ==
  IF isNotification(m) THEN [s EXCEPT !.ret = FALSE]
  ELSE IF m.messageId = 0 THEN [s EXCEPT !.ret = FALSE]
  ELSE IF ~has(s, m.messageId) THEN [s EXCEPT !.ret = FALSE]
  ELSE LET pendingRequest == get(s, m.messageId)
           s1 == delete(ClearRequestTimer(s, pendingRequest.req), m.messageId)
       IN  IF isErrorResponse(m) \/ (m.hasCode /\ m.code # OK)
           THEN LET s2 == IF m.hasCode /\ m.code = RATE_LIMITED
                          THEN notifyRequestLimitExceededListeners(s1, 1)
                          ELSE s1
                IN  [Settle(s2, pendingRequest.req, "rejected", "HPKVError",
                            IF m.hasCode /\ m.code # 0 THEN m.code ELSE FALLBACK_ERROR_CODE,
                            "response") EXCEPT !.ret = TRUE]
           ELSE [Settle(s1, pendingRequest.req, "resolved", "",
                        IF m.hasCode THEN m.code ELSE 0, "response") EXCEPT !.ret = TRUE]

\* --------------------------------------------------- HPKVSubscriptionClient
\* Map.set(id, v): a new key goes last, a known key keeps its place
MapSet(map, id, v) ==
  IF \E i \in DOMAIN map : map[i].id = id
  THEN [i \in DOMAIN map |-> IF map[i].id = id THEN [id |-> id, callback |-> v] ELSE map[i]]
  ELSE Append(map, [id |-> id, callback |-> v])

MapDelete(map, id) == SelectSeq(map, LAMBDA e : e.id # id)

\* subscribe(callback); callbackId is what Math.random().toString(36) gave
subscribe(s, callbackId, callback) ==
  [s EXCEPT !.subscriptions = MapSet(@, callbackId, callback), !.ret = callbackId]

unsubscribeKeeps(s, callbackId) == s

unsubscribe(s, callbackId) ==
  [s EXCEPT !.subscriptions = MapDelete(@, callbackId)]

\* handleMessage of the subscription client: a notification queues one
\* microtask per subscription, anything else goes to the base class
subscriptionHandleMessage(s, m) ==
  IF m.type = "notification"
  THEN [s EXCEPT !.callbackJobs = @ \o [i \in DOMAIN s.subscriptions |-> s.subscriptions[i].callback]]
  ELSE handleMessage(s, m)

\* ------------------------------------------------------------ socket adapter
Listener(ev, h, id) == [ev |-> ev, h |-> h, id |-> id]

on(s, a, l) == [s EXCEPT !.adapters[a].listeners = Append(@, l)]
removeListener(s, a, l) ==
  [s EXCEPT !.adapters[a].listeners = SelectSeq(@, LAMBDA x : x # l)]
removeAllListeners(s, a) == [s EXCEPT !.adapters[a].listeners = <<>>]

\* ---- one adapter with its wrappers
\* the cases of on()'s switch
HandledEvents == {"open", "message", "close", "error"}
\* other names a caller may pass: one no object has, one Object.prototype has
OtherEvents == {"ping", "toString"}
ObjectPrototype == {"toString"}
Listeners == {"f", "g"}

\* obj[event] = value
PutKey(obj, event, value) ==
  [k \in DOMAIN obj \cup {event} |-> IF k = event THEN value ELSE obj[k]]
\* delete obj[event]
DeleteKey(obj, event) == [k \in DOMAIN obj \ {event} |-> obj[k]]
\* array.splice(i, 1)
Splice(array, i) == SubSeq(array, 1, i - 1) \o SubSeq(array, i + 1, Len(array))
\* array.findIndex(p), 0 for -1
FindIndex(array, original) ==
  IF \E i \in DOMAIN array : array[i].original = original
  THEN CHOOSE i \in DOMAIN array :
         /\ array[i].original = original
         /\ \A j \in 1..(i - 1) : array[j].original # original
  ELSE 0

\* the underlying socket: ws.addEventListener (an EventTarget holds a callback
\* once per event) or ws.on (an EventEmitter appends)
rawAdd(s, event, wrapper) ==
  IF s.platform = "browser" /\ \E i \in DOMAIN s.rawListeners[event] : s.rawListeners[event][i] = wrapper
  THEN s
  ELSE [s EXCEPT !.rawListeners[event] = Append(@, wrapper)]

\* ws.removeEventListener / ws.removeListener: the instance registered last
rawRemove(s, event, wrapper) ==
  LET list == s.rawListeners[event]
      at == {i \in DOMAIN list : list[i] = wrapper}
  IN  IF at = {} THEN s
      ELSE [s EXCEPT !.rawListeners[event] =
              Splice(list, CHOOSE i \in at : \A j \in at : j <= i)]

\* ws.removeAllListeners() of the EventEmitter
rawRemoveAll(s) == [s EXCEPT !.rawListeners = [event \in DOMAIN @ |-> <<>>]]

\* on(event, listener): a new closure per call
IWebSocket_on(s, event, listener) ==
  IF event \notin HandledEvents THEN [s EXCEPT !.ret = "Error"]
  ELSE LET wrapper == Len(s.closures) + 1
           s1 == rawAdd([s EXCEPT !.closures = Append(@, [event |-> event, original |-> listener])],
                        event, wrapper)
           held == IF event \in DOMAIN s1.internalListeners
                   THEN s1.internalListeners[event] ELSE <<>>
       IN  [s1 EXCEPT !.internalListeners =
                        PutKey(@, event, Append(held, [original |-> listener, wrapper |-> wrapper])),
                      !.ret = "this"]

IWebSocket_removeListenerLeaks(s, event, listener) ==
  IF event \notin DOMAIN s.internalListeners
  THEN [s EXCEPT !.ret = IF event \in ObjectPrototype THEN "TypeError" ELSE "this"]
  ELSE LET listenerIndex == FindIndex(s.internalListeners[event], listener)
       IN  IF listenerIndex # 0
           THEN LET rest == Splice(s.internalListeners[event], listenerIndex)
                IN  [s EXCEPT !.internalListeners =
                                IF Len(rest) = 0 THEN DeleteKey(@, event)
                                ELSE PutKey(@, event, rest),
                              !.ret = "this"]
           ELSE [s EXCEPT !.ret = "this"]

\* removeListener(event, listener); internalListeners[event] of a name that only
\* Object.prototype has is a function without findIndex
IWebSocket_removeListener(s, event, listener) ==
  IF event \notin DOMAIN s.internalListeners
  THEN [s EXCEPT !.ret = IF event \in ObjectPrototype THEN "TypeError" ELSE "this"]
  ELSE LET listenerIndex == FindIndex(s.internalListeners[event], listener)
       IN  IF listenerIndex # 0
           THEN LET wrapper == s.internalListeners[event][listenerIndex].wrapper
                    s1 == rawRemove(s, event, wrapper)
                    rest == Splice(s.internalListeners[event], listenerIndex)
                IN  [s1 EXCEPT !.internalListeners =
                                 IF Len(rest) = 0 THEN DeleteKey(@, event)
                                 ELSE PutKey(@, event, rest),
                               !.ret = "this"]
           ELSE [s EXCEPT !.ret = "this"]

\* the wrappers of the pairs held, key by key
RECURSIVE removeWrappers(_, _, _)
removeWrappers(s, event, pairs) ==
  IF pairs = <<>> THEN s
  ELSE removeWrappers(rawRemove(s, event, Head(pairs).wrapper), event, Tail(pairs))

RECURSIVE removeKeys(_, _)
removeKeys(s, keys) ==
  IF keys = {} THEN s
  ELSE LET event == CHOOSE k \in keys : TRUE
       IN  removeKeys(removeWrappers(s, event, s.internalListeners[event]), keys \ {event})

\* removeAllListeners()
IWebSocket_removeAllListeners(s) ==
  LET s1 == IF s.platform = "browser" THEN removeKeys(s, DOMAIN s.internalListeners)
            ELSE rawRemoveAll(s)
  IN  [s1 EXCEPT !.internalListeners = [event \in {} |-> <<>>], !.ret = "this"]

\* close(code, reason) of the raw socket: the closing handshake starts (or the
\* opening handshake is aborted); the close event comes later.
close(s, a) ==
  [s EXCEPT !.adapters[a].closeCalled = TRUE,
            !.adapters[a].readyState = IF @ \in {CONNECTING, OPEN} THEN CLOSING ELSE @]

\* ------------------------------------------------------ BaseWebSocketClient
isWebSocketOpen(s) == s.ws # 0 /\ s.adapters[s.ws].readyState = OPEN

syncConnectionState(s) ==
  IF s.ws = 0 THEN [s EXCEPT !.connectionState = DISCONNECTED]
  ELSE LET rs == s.adapters[s.ws].readyState
       IN  [s EXCEPT !.connectionState =
              CASE rs = CONNECTING -> CONNECTING_STATE
                [] rs = OPEN -> CONNECTED
                [] rs = CLOSING -> DISCONNECTING
                [] rs = CLOSED -> DISCONNECTED]

\* getConnectionStats(): what it reports (it leaves the synchronized state behind)
getConnectionStats(s) ==
  LET s1 == syncConnectionState(s)
  IN  [isConnected |-> s1.connectionState = CONNECTED,
       reconnectAttempts |-> s1.reconnectAttempts,
       messagesPending |-> Cardinality(s1.messageMap),
       connectionState |-> s1.connectionState]

clearConnectionTimeout(s) ==
  IF s.connectionTimeout # 0
  THEN [s EXCEPT !.timers = @ \ {s.connectionTimeout}, !.connectionTimeout = 0]
  ELSE s

settleAttempt(s, p, outcome) ==
  IF s.attempts[p].promise = "pending" THEN [s EXCEPT !.attempts[p].promise = outcome] ELSE s

removeConnectAttemptListeners(s, p, a) ==
  removeListener(
    removeListener(
      removeListener(s, a, Listener("open", "onOpen", p)),
      a, Listener("error", "onErrorDuringConnect", p)),
    a, Listener("close", "onCloseDuringConnect", p))

connectionTimeoutIgnored(s, p) == s

\* the connection timer's callback of attempt p
connectionTimeoutFired(s, p) ==
  IF s.connectionState # CONNECTED
  THEN LET s1 == IF s.ws # 0
                 THEN [removeAllListeners(removeConnectAttemptListeners(s, p, s.ws), s.ws)
                         EXCEPT !.ws = 0]
                 ELSE s
           s2 == [s1 EXCEPT !.connectionState = DISCONNECTED]
       IN  settleAttempt(Emit(s2, [type |-> "error", error |-> "TimeoutError"]),
                         p, "TimeoutError")
  ELSE s

onOpenKeepsCount(s, p, a) ==
  LET s1 == clearConnectionTimeout(removeConnectAttemptListeners(s, p, a))
      s2 == Emit([s1 EXCEPT !.connectionState = CONNECTED], [type |-> "connected"])
      s3 == s2
      s4 == IF s3.ws = a
            THEN on(on(on(s3, a, Listener("message", "handleMessage", 0)),
                       a, Listener("error", "handleWebSocketError", 0)),
                    a, Listener("close", "handleWebSocketClose", 0))
            ELSE s3
  IN  settleAttempt(s4, p, "resolved")

onOpen(s, p, a) ==
  LET s1 == clearConnectionTimeout(removeConnectAttemptListeners(s, p, a))
      s2 == Emit([s1 EXCEPT !.connectionState = CONNECTED], [type |-> "connected"])
      s3 == [s2 EXCEPT !.reconnectAttempts = 0]
      s4 == IF s3.ws = a
            THEN on(on(on(s3, a, Listener("message", "handleMessage", 0)),
                       a, Listener("error", "handleWebSocketError", 0)),
                    a, Listener("close", "handleWebSocketClose", 0))
            ELSE s3
  IN  settleAttempt(s4, p, "resolved")

\* onErrorDuringConnect and onCloseDuringConnect differ in the message only
onFailureDuringConnect(s, p, a) ==
  IF s.connectionState # CONNECTING_STATE
  THEN removeConnectAttemptListeners(s, p, a)
  ELSE LET s1 == clearConnectionTimeout(removeConnectAttemptListeners(s, p, a))
           s2 == [s1 EXCEPT !.connectionState = DISCONNECTED,
                            !.ws = IF @ = a THEN 0 ELSE @]
       IN  settleAttempt(Emit(s2, [type |-> "error", error |-> "ConnectionError"]),
                         p, "ConnectionError")

onErrorDuringConnect(s, p, a) == onFailureDuringConnect(s, p, a)
onCloseDuringConnect(s, p, a) == onFailureDuringConnect(s, p, a)

\* _initiateConnectionAttempt: throws says whether createWebSocket throws
initiateConnectionAttempt(s, throws) ==
  LET p == Len(s.attempts) + 1
      a == Len(s.adapters) + 1
      s1 == clearConnectionTimeout(s)
      s2 == [s1 EXCEPT !.timers = @ \cup {p}, !.connectionTimeout = p]
  IN  IF p > MaxAttempts THEN [s EXCEPT !.ok = FALSE]
      ELSE IF throws
      THEN LET s3 == [clearConnectionTimeout(s2) EXCEPT
                        !.connectionState = DISCONNECTED,
                        !.attempts = Append(@, [promise |-> "ConnectionError", ws |-> 0])]
           IN  Emit(s3, [type |-> "error", error |-> "ConnectionError"])
      ELSE [s2 EXCEPT
              !.adapters = Append(@, [readyState |-> CONNECTING,
                                      listeners |-> <<Listener("open", "onOpen", p),
                                                      Listener("error", "onErrorDuringConnect", p),
                                                      Listener("close", "onCloseDuringConnect", p)>>,
                                      closeCalled |-> FALSE,
                                      sent |-> {}]),
              !.ws = a,
              !.attempts = Append(@, [promise |-> "pending", ws |-> a])]

\* connect(): the state after the call, and what the returned promise follows
\* (ret: 0 = already resolved, otherwise the attempt whose promise it is)
connect(s, throws) ==
  LET s1 == syncConnectionState([s EXCEPT !.isGracefulDisconnect = FALSE])
  IN  IF s1.connectionState = CONNECTED /\ isWebSocketOpen(s1)
      THEN [s1 EXCEPT !.ret = 0]
      ELSE IF s1.connectionState \in {CONNECTING_STATE, RECONNECTING} /\ s1.connectionPromise # 0
      THEN [s1 EXCEPT !.ret = s1.connectionPromise]
      ELSE LET s2 == initiateConnectionAttempt(
                       [s1 EXCEPT !.connectionState = CONNECTING_STATE], throws)
           IN  [s2 EXCEPT !.connectionPromise = Len(s2.attempts),
                          !.ret = Len(s2.attempts)]

\* finalizeCleanup of the k-th cleanup() that waits for the close event
finalizeCleanup(s, k) ==
  IF s.cleanups[k].finalized THEN s
  ELSE LET a == s.cleanups[k].ws
           s1 == [s EXCEPT !.cleanups[k].finalized = TRUE, !.cleanups[k].timer = FALSE]
           s2 == removeListener(s1, a, Listener("close", "onCloseHandlerForCleanup", k))
           s3 == IF s2.ws = a
                 THEN [(IF s2.adapters[a].readyState # CLOSED
                        THEN removeAllListeners(s2, a) ELSE s2) EXCEPT !.ws = 0]
                 ELSE s2
       IN  [s3 EXCEPT !.connectionState = DISCONNECTED,
                      !.connectionPromise = 0,
                      !.cleanups[k].stage = "resolved"]

\* cleanup(code, reason)
cleanup(s, cancelled) ==
  LET k == Len(s.cleanups) + 1
      s1 == clearConnectionTimeout(s)
      new(a, stage) == [ws |-> a, finalized |-> FALSE, timer |-> FALSE, stage |-> stage,
                        cancelled |-> cancelled, connectCalled |-> FALSE]
  IN  IF k > MaxCleanups THEN [s EXCEPT !.ok = FALSE]
      ELSE IF s1.ws = 0
      THEN [s1 EXCEPT !.connectionState = DISCONNECTED,
                      !.connectionPromise = 0,
                      !.cleanups = Append(@, [new(0, "resolved") EXCEPT !.finalized = TRUE])]
      ELSE LET a == s1.ws
               s2 == [s1 EXCEPT !.cleanups = Append(@, new(a, "waiting"))]
           IN  IF s2.adapters[a].readyState = CLOSED
               THEN finalizeCleanup(s2, k)
               ELSE LET s3 == on(s2, a, Listener("close", "onCloseHandlerForCleanup", k))
                        s4 == IF s3.adapters[a].readyState \in {OPEN, CONNECTING}
                              THEN close(s3, a) ELSE s3
                    IN  [s4 EXCEPT !.cleanups[k].timer = TRUE]

\* disconnect(cancelPendingRequests), up to the promise it returns
disconnect(s, cancelPendingRequests) ==
  LET s1 == syncConnectionState([s EXCEPT !.isGracefulDisconnect = TRUE,
                                          !.reconnectAttempts = 0])
  IN  IF s1.connectionState = DISCONNECTED /\ s1.ws = 0
      THEN [s1 EXCEPT !.isGracefulDisconnect = FALSE, !.ret = 0]
      ELSE LET s2 == [s1 EXCEPT !.connectionState = DISCONNECTING]
               s3 == IF cancelPendingRequests
                     THEN cancelAllRequests(s2, "ConnectionError") ELSE s2
               s4 == cleanup(s3, cancelPendingRequests)
           IN  [s4 EXCEPT !.ret = Len(s4.cleanups)]

\* the .finally callback of disconnect()
disconnectFinally(s, k) ==
  [s EXCEPT !.connectionState = DISCONNECTED,
            !.connectionPromise = 0,
            !.isGracefulDisconnect = FALSE,
            !.cleanups[k].stage = "done"]

\* reconnect(), up to its wait for the delay; l is the chain of reconnect() calls
reconnect(s, l) ==
  LET s1 == [s EXCEPT !.reconnectAttempts = @ + 1,
                      !.connectionState = RECONNECTING,
                      !.loops[l].pc = "waiting",
                      !.loops[l].awaiting = 0]
  IN  Emit(s1, [type |-> "reconnecting", attempt |-> s1.reconnectAttempts])

\* reconnect() after the delay: await this.connect()
reconnectAfterDelay(s, l, throws) ==
  LET s1 == connect(s, throws)
  IN  [s1 EXCEPT !.loops[l].pc = "awaiting", !.loops[l].awaiting = s1.ret]

AwaitedOutcome(s, l) ==
  IF s.loops[l].awaiting = 0 THEN "resolved" ELSE s.attempts[s.loops[l].awaiting].promise

reconnectOnceMore(s, l) ==
  IF AwaitedOutcome(s, l) = "resolved"
  THEN Emit([s EXCEPT !.loops[l].pc = "done"], [type |-> "connected"])
  ELSE IF s.reconnectAttempts <= maxReconnectAttempts
  THEN reconnect(s, l)
  ELSE [s EXCEPT !.loops[l].pc = "done", !.loops[l].failed = @ + 1,
                 !.connectionState = DISCONNECTED]

\* reconnect() after the awaited connect() has settled, with the catch of
\* initiateReconnectionCycle when it throws
reconnectAfterConnect(s, l) ==
  IF AwaitedOutcome(s, l) = "resolved"
  THEN Emit([s EXCEPT !.loops[l].pc = "done"], [type |-> "connected"])
  ELSE IF s.reconnectAttempts < maxReconnectAttempts
  THEN reconnect(s, l)
  ELSE LET s1 == Emit([s EXCEPT !.connectionState = DISCONNECTED],
                      [type |-> "reconnectFailed"])
           s2 == cancelAllRequests(s1, "ConnectionError")
       IN  [s2 EXCEPT !.loops[l].pc = "done",
                      !.loops[l].failed = @ + 1,
                      !.connectionState = DISCONNECTED]

initiateReconnectionCycle(s) ==
  IF s.isGracefulDisconnect
  THEN [s EXCEPT !.connectionState = DISCONNECTED]
  ELSE IF s.connectionState \in {RECONNECTING, CONNECTING_STATE}
  THEN s
  ELSE LET l == Len(s.loops) + 1
       IN  IF l > MaxLoops THEN [s EXCEPT !.ok = FALSE]
           ELSE reconnect([s EXCEPT !.connectionState = RECONNECTING,
                                    !.reconnectAttempts = 0,
                                    !.loops = Append(@, [pc |-> "waiting", awaiting |-> 0,
                                                         failed |-> 0])],
                          l)

handleWebSocketError(s) == Emit(s, [type |-> "error", error |-> "ConnectionError"])

handleWebSocketClose(s, code) ==
  LET wasConnected == s.connectionState = CONNECTED
      s1 == IF s.ws # 0 THEN [removeAllListeners(s, s.ws) EXCEPT !.ws = 0] ELSE s
      s2 == [s1 EXCEPT !.connectionState = DISCONNECTED, !.connectionPromise = 0]
      s3 == Emit(s2, [type |-> "disconnected", code |-> code,
                      gracefully |-> s2.isGracefulDisconnect])
  IN  IF ~s3.isGracefulDisconnect
      THEN LET s4 == cancelAllRequests(s3, "ConnectionError")
           IN  IF code # NORMAL_CLOSURE \/ (code = NORMAL_CLOSURE /\ wasConnected)
               THEN initiateReconnectionCycle(s4)
               ELSE s4
      ELSE [s3 EXCEPT !.isGracefulDisconnect = FALSE]

\* ------------------------------------------------- ThrottlingManager, queueing
NoTimer == [due |-> 0, kind |-> "none"]
minTimeBetweenRequests(s) == 1000000 \div s.currentRate

\* the slot promise of request r resolves: its sendMessage continues in a
\* microtask, behind those of the promises resolved before it
grant(s, r) == [s EXCEPT !.requests[r].status = "granted", !.granted = Append(@, r)]

processThrottleQueueNoReserve(s) ==
  IF Len(s.throttleQueue) = 0 THEN [s EXCEPT !.processingQueue = FALSE]
  ELSE LET s1 == [s EXCEPT !.processingQueue = TRUE,
                           !.nextAvailableSlotTime = Max(s.now, @)]
       IN  IF s1.now < s1.backoffUntil
           THEN LET slot == Max(s1.nextAvailableSlotTime, s1.backoffUntil)
                IN  [s1 EXCEPT !.nextAvailableSlotTime = slot,
                               !.throttleTimer = [due |-> slot, kind |-> "backoff"]]
           ELSE [s1 EXCEPT !.throttleTimer = [due |-> s1.nextAvailableSlotTime,
                                              kind |-> "grant"]]

processThrottleQueue(s) ==
  IF Len(s.throttleQueue) = 0 THEN [s EXCEPT !.processingQueue = FALSE]
  ELSE LET s1 == [s EXCEPT !.processingQueue = TRUE,
                           !.nextAvailableSlotTime = Max(s.now, @)]
       IN  IF s1.now < s1.backoffUntil
           THEN LET slot == Max(s1.nextAvailableSlotTime, s1.backoffUntil)
                IN  [s1 EXCEPT !.nextAvailableSlotTime = slot,
                               !.throttleTimer = [due |-> slot, kind |-> "backoff"]]
           ELSE [s1 EXCEPT !.throttleTimer = [due |-> s1.nextAvailableSlotTime,
                                              kind |-> "grant"],
                           !.nextAvailableSlotTime = @ + minTimeBetweenRequests(s1)]

throttleTimerFiredLast(s) ==
  LET kind == s.throttleTimer.kind
      s0 == [s EXCEPT !.throttleTimer = NoTimer]
  IN  IF kind = "backoff" THEN processThrottleQueue(s0)
      ELSE LET s1 == IF Len(s0.throttleQueue) > 0
                     THEN [grant(s0, s0.throttleQueue[Len(s0.throttleQueue)])
                             EXCEPT !.throttleQueue = SubSeq(@, 1, Len(@) - 1)]
                     ELSE s0
           IN  IF Len(s1.throttleQueue) > 0 THEN processThrottleQueue(s1)
               ELSE [s1 EXCEPT !.processingQueue = FALSE]

\* the callback of the timer processThrottleQueue sets
throttleTimerFired(s) ==
  LET kind == s.throttleTimer.kind
      s0 == [s EXCEPT !.throttleTimer = NoTimer]
  IN  IF kind = "backoff" THEN processThrottleQueue(s0)
      ELSE LET s1 == IF Len(s0.throttleQueue) > 0
                     THEN [grant(s0, Head(s0.throttleQueue)) EXCEPT !.throttleQueue = Tail(@)]
                     ELSE s0
           IN  IF Len(s1.throttleQueue) > 0 THEN processThrottleQueue(s1)
               ELSE [s1 EXCEPT !.processingQueue = FALSE]

throttleRequestAlways(s, r) ==
  LET earliestRunTime == Max(s.now, Max(s.nextAvailableSlotTime, s.backoffUntil))
  IN  IF earliestRunTime <= s.now
      THEN grant([s EXCEPT !.nextAvailableSlotTime = s.now + minTimeBetweenRequests(s)], r)
      ELSE LET s1 == [s EXCEPT !.throttleQueue = Append(@, r)]
           IN  IF ~s1.processingQueue THEN processThrottleQueue(s1) ELSE s1

\* throttleRequest() for the request r that awaits it
throttleRequest(s, r) ==
  IF ~s.throttlingConfig.enabled THEN grant(s, r)
  ELSE LET earliestRunTime == Max(s.now, Max(s.nextAvailableSlotTime, s.backoffUntil))
       IN  IF earliestRunTime <= s.now
           THEN grant([s EXCEPT !.nextAvailableSlotTime = s.now + minTimeBetweenRequests(s)], r)
           ELSE LET s1 == [s EXCEPT !.throttleQueue = Append(@, r)]
                IN  IF ~s1.processingQueue THEN processThrottleQueue(s1) ELSE s1

shiftAllDropped(s) == [s EXCEPT !.throttleQueue = <<>>]

\* the while loop of updateConfig: every deferred caller is resolved, oldest first
RECURSIVE shiftAll(_)
shiftAll(s) ==
  IF Len(s.throttleQueue) = 0 THEN s
  ELSE shiftAll(grant([s EXCEPT !.throttleQueue = Tail(@)], Head(s.throttleQueue)))

updateConfigKeepsRate(s, config) ==
  LET wasEnabled == s.throttlingConfig.enabled
      merged == [k \in DOMAIN s.throttlingConfig |->
                   IF k \in DOMAIN config THEN config[k] ELSE s.throttlingConfig[k]]
      s1 == [s EXCEPT !.throttlingConfig = merged]
  IN  IF wasEnabled /\ ~merged.enabled THEN shiftAll(s1) ELSE s1

\* updateConfig(config), config a record with any of the fields enabled, rateLimit
updateConfig(s, config) ==
  LET wasEnabled == s.throttlingConfig.enabled
      merged == [k \in DOMAIN s.throttlingConfig |->
                   IF k \in DOMAIN config THEN config[k] ELSE s.throttlingConfig[k]]
      s1 == [s EXCEPT !.throttlingConfig = merged,
                      !.currentRate = 1000 * (IF merged.rateLimit # 0 THEN merged.rateLimit
                                              ELSE DEFAULT_THROTTLING_rateLimit)]
  IN  IF wasEnabled /\ ~merged.enabled THEN shiftAll(s1) ELSE s1

\* destroy() of the client: cancelAllRequests, then messageHandler.destroy()
\* and throttlingManager.destroy()
destroy(s) ==
  LET s1 == cancelAllRequests(s, "ConnectionError")
      s2 == [cancelAllRequests(s1, "Error") EXCEPT !.cleanupInterval = 0]
  IN  shiftAll(s2)

\* ------------------------------------------------------------- sendMessage
NewRequest(timeoutMs) ==
  [status |-> "throttle", error |-> "", code |-> 0, id |-> 0, timeoutMs |-> timeoutMs,
   timer |-> FALSE, deadline |-> 0, timestamp |-> 0, settledBy |-> ""]

\* sendMessage up to its await of the throttling slot
sendMessage(s, timeoutMs) ==
  throttleRequest([s EXCEPT !.requests = Append(@, NewRequest(timeoutMs))],
                  Len(s.requests) + 1)

\* sendMessage after the slot was granted
sendMessageGranted(s, r) ==
  LET s1 == syncConnectionState(s)
      id == getNextMessageId(s1.messageId)
      s2 == registerRequest([s1 EXCEPT !.messageId = id], r, id, s1.requests[r].timeoutMs)
  IN  IF s2.ws # 0 /\ isWebSocketOpen(s2)
      THEN [s2 EXCEPT !.adapters[s2.ws].sent = @ \cup {id}]
      ELSE cancel(s2, r)

\* ---------------------------------------------------- dispatch of raw events
Call(s, l, a, arg) ==
  CASE l.h = "onOpen" -> onOpen(s, l.id, a)
    [] l.h = "onErrorDuringConnect" -> onErrorDuringConnect(s, l.id, a)
    [] l.h = "onCloseDuringConnect" -> onCloseDuringConnect(s, l.id, a)
    [] l.h = "handleMessage" -> handleMessage(s, arg)
    [] l.h = "handleWebSocketError" -> handleWebSocketError(s)
    [] l.h = "handleWebSocketClose" -> handleWebSocketClose(s, arg)
    [] l.h = "onCloseHandlerForCleanup" -> finalizeCleanup(s, l.id)

\* The raw socket calls the listeners registered when the event fires, in
\* registration order.  A listener removed by an earlier one is still called
\* by Node's EventEmitter (emit iterates a copy) and skipped by a browser's
\* EventTarget.
RECURSIVE RunListeners(_, _, _, _, _)
RunListeners(s, a, snapshot, i, arg) ==
  IF i > Len(snapshot) THEN s
  ELSE LET l == snapshot[i]
           called == s.platform = "node" \/ l \in Range(s.adapters[a].listeners)
       IN  RunListeners(IF called THEN Call(s, l, a, arg) ELSE s, a, snapshot, i + 1, arg)

Dispatch(s, a, ev, arg) ==
  RunListeners(s, a, SelectSeq(s.adapters[a].listeners, LAMBDA l : l.ev = ev), 1, arg)

\* ------------------------------------------------------------------ the jobs
\* Promise continuations run before the event loop takes the next timer or
\* socket event.
MicrotaskPending ==
  \/ \E k \in DOMAIN cleanups : cleanups[k].stage = "resolved"
  \/ \E l \in DOMAIN loops : loops[l].pc = "awaiting" /\ AwaitedOutcome(St, l) # "pending"
  \/ granted # <<>>
  \/ callbackJobs # <<>>

Did(s, what) == Becomes([s EXCEPT !.last = what])

\* a call of the caller
Called(s, what) ==
  /\ calls < MaxCalls
  /\ Did([s EXCEPT !.calls = @ + 1], what)

\* the raw socket a still listens to, or holds
Live(a) == a = ws \/ adapters[a].listeners # <<>>

\* ---- the caller
Connect ==
  \E throws \in BOOLEAN :
    LET s == connect(St, throws)
        \* a disconnect() still unresolved sees the caller connect again
        seen == [k \in DOMAIN s.cleanups |->
                   IF s.cleanups[k].stage = "done" THEN s.cleanups[k]
                   ELSE [s.cleanups[k] EXCEPT !.connectCalled = TRUE]]
    IN  Called([s EXCEPT !.asked = "connect", !.cleanups = seen], [op |-> "connect", ret |-> s.ret, made |-> Len(s.attempts) - Len(attempts)])

Disconnect ==
  \E cancelPendingRequests \in BOOLEAN :
    LET s == disconnect(St, cancelPendingRequests)
    IN  Called([s EXCEPT !.asked = "disconnect"], [op |-> "disconnect", ret |-> s.ret, cancel |-> cancelPendingRequests])

GetConnectionState ==
  Called(syncConnectionState(St), [op |-> "getConnectionState"])

Request(timeoutMs) ==
  /\ Len(requests) < MaxRequests
  /\ Called(sendMessage(St, timeoutMs), [op |-> "request", r |-> Len(requests) + 1])

\* ---- promise continuations
SendGranted ==
  /\ granted # <<>>
  /\ Did([sendMessageGranted(St, Head(granted)) EXCEPT !.granted = Tail(@)],
         [op |-> "send", r |-> Head(granted)])

DisconnectFinally ==
  \E k \in DOMAIN cleanups :
    /\ cleanups[k].stage = "resolved"
    /\ Did(disconnectFinally(St, k), [op |-> "disconnectFinally", k |-> k])

ReconnectAfterConnect ==
  \E l \in DOMAIN loops :
    /\ loops[l].pc = "awaiting"
    /\ AwaitedOutcome(St, l) # "pending"
    /\ Did(reconnectAfterConnect(St, l), [op |-> "reconnectAfterConnect", l |-> l])

\* ---- timers
ConnectionTimeout ==
  \E p \in timers :
    /\ ~MicrotaskPending
    /\ Did(connectionTimeoutFired([St EXCEPT !.timers = @ \ {p}], p),
           [op |-> "connectionTimeout", p |-> p])

CleanupTimeout ==
  \E k \in DOMAIN cleanups :
    /\ ~MicrotaskPending
    /\ cleanups[k].timer
    /\ Did(finalizeCleanup([St EXCEPT !.cleanups[k].timer = FALSE], k),
           [op |-> "cleanupTimeout", k |-> k])

ReconnectDelayElapsed ==
  \E l \in DOMAIN loops, throws \in BOOLEAN :
    /\ ~MicrotaskPending
    /\ loops[l].pc = "waiting"
    /\ LET s == reconnectAfterDelay(St, l, throws)
       IN  Did(s, [op |-> "reconnectConnect", l |-> l, ret |-> s.ret,
                   made |-> Len(s.attempts) - Len(attempts)])

\* ---- the raw socket
SocketOpen ==
  \E a \in DOMAIN adapters :
    /\ ~MicrotaskPending
    /\ Live(a)
    /\ adapters[a].readyState = CONNECTING
    /\ Did(Dispatch([St EXCEPT !.adapters[a].readyState = OPEN], a, "open", 0),
           [op |-> "open", a |-> a])

\* the socket fails: an error event, then the close event
SocketError ==
  \E a \in DOMAIN adapters :
    /\ ~MicrotaskPending
    /\ Live(a)
    /\ adapters[a].readyState \in {CONNECTING, OPEN, CLOSING}
    /\ LET s1 == Dispatch([St EXCEPT !.adapters[a].readyState = CLOSING], a, "error", 0)
           s2 == Dispatch([s1 EXCEPT !.adapters[a].readyState = CLOSED], a, "close", 1006)
       IN  Did(s2, [op |-> "error", a |-> a])

\* the peer starts the closing handshake
SocketClosing ==
  \E a \in DOMAIN adapters :
    /\ ~MicrotaskPending
    /\ Live(a)
    /\ adapters[a].readyState = OPEN
    /\ Did([St EXCEPT !.adapters[a].readyState = CLOSING], [op |-> "closing", a |-> a])

SocketClose ==
  \E a \in DOMAIN adapters, code \in {NORMAL_CLOSURE, 1006} :
    /\ ~MicrotaskPending
    /\ Live(a)
    /\ adapters[a].readyState \in {CONNECTING, OPEN, CLOSING}
    /\ Did(Dispatch([St EXCEPT !.adapters[a].readyState = CLOSED], a, "close", code),
           [op |-> "close", a |-> a, code |-> code])

Frame(type, id, hasCode, code, hasError) ==
  [type |-> type, messageId |-> id, hasCode |-> hasCode, code |-> code, hasError |-> hasError]

\* the answer to a request sent on the socket
SocketMessage(frames) ==
  \E a \in DOMAIN adapters, m \in frames :
    /\ ~MicrotaskPending
    /\ Live(a)
    /\ adapters[a].readyState \in {OPEN, CLOSING}
    /\ m.messageId \in adapters[a].sent
    /\ Did(Dispatch([St EXCEPT !.adapters[a].sent = @ \ {m.messageId}], a, "message", m),
           [op |-> "message", a |-> a, m |-> m])

\* ---------------------------------------------------------------- the core
\* new MessageHandler(), new ThrottlingManager(config.throttling), and the
\* listener the client's constructor means to register
InitCorrelatorFrom(enabled, id) ==
  /\ messageId = id
  /\ messageMap = {}
  /\ requestLimitExceededListeners = <<>>
  /\ onRateLimitExceeded = "notify429"
  /\ requests = <<>>
  /\ throttlingConfig = [enabled |-> enabled, rateLimit |-> DEFAULT_THROTTLING_rateLimit]
  /\ currentRate = DEFAULT_THROTTLING_rateLimit * 1000
  /\ backoffUntil = 0
  /\ backoffExponent = 0
  /\ nextAvailableSlotTime = 0
  /\ throttleQueue = <<>>
  /\ processingQueue = FALSE
  /\ throttleTimer = NoTimer
  /\ granted = <<>>
  /\ subscriptions = <<>>
  /\ callbackJobs = <<>>
  /\ registered = <<>>
  /\ unsubscribed = {}
  /\ notified = {}
  /\ invoked = <<>>
  /\ heard = [on |-> FALSE, log |-> <<>>, k |-> 0]
  /\ internalListeners = [event \in {} |-> <<>>]
  /\ rawListeners = [event \in HandledEvents |-> <<>>]
  /\ closures = <<>>
  /\ owed = [c \in HandledEvents \X Listeners |-> 0]
  /\ cleanupInterval = DEFAULT_TIMEOUTS_CLEANUP
  /\ calls = 0
  /\ asked = "nothing"
  /\ now = 0
  /\ events = <<>>

InitCorrelator(enabled) == InitCorrelatorFrom(enabled, 0)

\* the connection fields as the constructor leaves them
InitConnection ==
  /\ ws = 0
  /\ connectionPromise = 0
  /\ connectionState = DISCONNECTED
  /\ reconnectAttempts = 0
  /\ connectionTimeout = 0
  /\ isGracefulDisconnect = FALSE
  /\ platform \in {"node", "browser"}
  /\ adapters = <<>>
  /\ attempts = <<>>
  /\ timers = {}
  /\ cleanups = <<>>
  /\ loops = <<>>

\* the client as its constructor leaves it
InitClient(enabled) ==
  /\ InitCorrelator(enabled)
  /\ InitConnection
  /\ last = [op |-> "new"]

CoreFrames == {Frame("", id, TRUE, OK, FALSE) : id \in 1..MaxRequests}

\* The connection lifecycle, with the clock standing still: every timer of the
\* core may fire at any moment it is armed.  Throttling is configured off
\* ({throttling: {enabled: false}}).
Init == InitClient(FALSE)

Next ==
  \/ GetConnectionState
  \/ Connect
  \/ Disconnect
  \/ Request(0)
  \/ SendGranted
  \/ DisconnectFinally
  \/ ReconnectAfterConnect
  \/ ConnectionTimeout
  \/ CleanupTimeout
  \/ ReconnectDelayElapsed
  \/ SocketOpen
  \/ SocketError
  \/ SocketClosing
  \/ SocketClose
  \/ SocketMessage(CoreFrames)

Spec == Init /\ [][Next]_vars

\* The caller connects once and may disconnect; every timer that is due runs,
\* every promise continuation runs, and a socket that is closing does close.
NextSettle ==
  \/ (asked = "nothing" /\ Connect)
  \/ Disconnect
  \/ DisconnectFinally
  \/ ReconnectAfterConnect
  \/ ConnectionTimeout
  \/ CleanupTimeout
  \/ ReconnectDelayElapsed
  \/ SocketOpen
  \/ SocketError
  \/ SocketClosing
  \/ SocketClose

SpecSettle ==
  /\ Init
  /\ [][NextSettle]_vars
  /\ WF_vars(DisconnectFinally)
  /\ WF_vars(ReconnectAfterConnect)
  /\ WF_vars(ConnectionTimeout)
  /\ WF_vars(CleanupTimeout)
  /\ WF_vars(ReconnectDelayElapsed)
  /\ WF_vars(SocketClose)

\* ------------------------------------------------ the correlator, with a clock
\* the moments at which a timer is due
Deadlines ==
  {requests[r].deadline : r \in {q \in DOMAIN requests : requests[q].timer}}
    \cup (IF throttleTimer.kind # "none" THEN {throttleTimer.due} ELSE {})
    \cup (IF cleanupInterval # 0 THEN {cleanupInterval} ELSE {})

RECURSIVE Earliest(_)
Earliest(S) ==
  LET x == CHOOSE y \in S : TRUE
  IN  IF S = {x} THEN x ELSE Min(x, Earliest(S \ {x}))

\* time passes, up to the next moment a timer is due
Advance ==
  /\ ~MicrotaskPending
  /\ now < MaxNow
  /\ \A d \in Deadlines : d > now
  /\ Did([St EXCEPT !.now = Min(now + Tick, Earliest(Deadlines))], [op |-> "advance"])

RequestTimeout ==
  \E r \in DOMAIN requests :
    /\ ~MicrotaskPending
    /\ requests[r].timer
    /\ requests[r].deadline <= now
    /\ Did(requestTimeout(St, r), [op |-> "requestTimeout", r |-> r])

ThrottleTimeout ==
  /\ ~MicrotaskPending
  /\ throttleTimer.kind # "none"
  /\ throttleTimer.due <= now
  /\ Did(throttleTimerFired(St), [op |-> "throttleTimeout"])

\* the setInterval of initCleanupInterval
StaleSweep ==
  /\ ~MicrotaskPending
  /\ cleanupInterval # 0
  /\ cleanupInterval <= now
  /\ Did([cleanupStaleRequests(St) EXCEPT !.cleanupInterval = @ + DEFAULT_TIMEOUTS_CLEANUP],
         [op |-> "sweep"])

TimeoutChoices == {0, LongTimeouts * DEFAULT_TIMEOUTS_OPERATION}

\* status codes of the answers: none, 0, 200, 404 and 429; with or without an
\* error field
AnswerFrames ==
  {Frame("", id, hasCode, code, hasError) :
     id \in 1..MaxRequests, hasCode \in BOOLEAN, code \in {0, OK, 404, RATE_LIMITED},
     hasError \in BOOLEAN}

\* The client after connect() and the socket's open event, throttling at its
\* default; the connection stays open.
InitOpenFrom(ids) ==
  /\ \E id \in ids : InitCorrelatorFrom(TRUE, id)
  /\ ws = 1
  /\ connectionPromise = 1
  /\ connectionState = CONNECTED
  /\ reconnectAttempts = 0
  /\ connectionTimeout = 0
  /\ isGracefulDisconnect = FALSE
  /\ platform \in {"node", "browser"}
  /\ adapters = <<[readyState |-> OPEN,
                   listeners |-> <<Listener("message", "handleMessage", 0),
                                   Listener("error", "handleWebSocketError", 0),
                                   Listener("close", "handleWebSocketClose", 0)>>,
                   closeCalled |-> FALSE,
                   sent |-> {}]>>
  /\ attempts = <<[promise |-> "resolved", ws |-> 1]>>
  /\ timers = {}
  /\ cleanups = <<>>
  /\ loops = <<>>
  /\ last = [op |-> "open", a |-> 1]

InitOpen == InitOpenFrom({0})

NextOpen ==
  \/ \E timeoutMs \in TimeoutChoices : Request(timeoutMs)
  \/ SendGranted
  \/ SocketMessage(AnswerFrames)
  \/ RequestTimeout
  \/ ThrottleTimeout
  \/ StaleSweep
  \/ Advance

SpecOpen == InitOpen /\ [][NextOpen]_vars

\* Whatever the server sends reaches MessageHandler.handleMessage: answers,
\* notifications with or without a messageId, frames without an id, answers
\* to ids nobody waits for.
HandlerFrame ==
  \E type \in {"", "notification"}, id \in 0..MaxRequests, code \in {OK, 404} :
    /\ ~MicrotaskPending
    /\ LET m == Frame(type, id, TRUE, code, FALSE)
           s == handleMessage(St, m)
       IN  Did(s, [op |-> "message", a |-> ws, m |-> m, handled |-> s.ret])

NextFrames ==
  \/ \E timeoutMs \in TimeoutChoices : Request(timeoutMs)
  \/ SendGranted
  \/ HandlerFrame
  \/ RequestTimeout
  \/ ThrottleTimeout
  \/ Advance

SpecFrames == InitOpen /\ [][NextFrames]_vars

\* The counter just below the value at which getNextMessageId starts over:
\* the connection has sent that many requests and all of them are settled.
WrapEdge == MAX_SAFE_INTEGER - ID_WRAP_MARGIN

InitWrap == InitOpenFrom({WrapEdge - 2, WrapEdge - 1, WrapEdge})

\* answers to the ids the next MaxRequests requests can get
WrapFrames ==
  {Frame("", id, hasCode, code, FALSE) :
     id \in (WrapEdge - 1)..WrapEdge \cup 1..MaxRequests,
     hasCode \in BOOLEAN, code \in {OK, RATE_LIMITED}}

NextWrap ==
  \/ \E timeoutMs \in TimeoutChoices : Request(timeoutMs)
  \/ SendGranted
  \/ SocketMessage(WrapFrames)
  \/ RequestTimeout
  \/ ThrottleTimeout
  \/ StaleSweep
  \/ Advance

SpecWrap == InitWrap /\ [][NextWrap]_vars

\* ------------------------------------------- the client left to itself
\* A reconnection cycle started now can run to its end within the bounds.
CanRecover ==
  /\ Len(attempts) + maxReconnectAttempts <= MaxAttempts
  /\ Len(loops) < MaxLoops

\* the network may drop an established connection while a cycle has room
FaultBudget ==
  \A a \in DOMAIN adapters :
    (Live(a) /\ adapters[a].readyState \in {OPEN, CLOSING}) => CanRecover

\* The caller connects once; from then on the network, the timers and the
\* promise continuations only.
NextAuto ==
  \/ (asked = "nothing" /\ Connect)
  \/ SocketOpen
  \/ (FaultBudget /\ SocketError)
  \/ (FaultBudget /\ SocketClosing)
  \/ (FaultBudget /\ SocketClose)
  \/ ConnectionTimeout
  \/ ReconnectDelayElapsed
  \/ ReconnectAfterConnect

\* setTimeout callbacks and promise continuations run; the network owes nothing
SpecAuto ==
  /\ Init
  /\ [][NextAuto]_vars
  /\ WF_vars(ConnectionTimeout)
  /\ WF_vars(ReconnectDelayElapsed)
  /\ WF_vars(ReconnectAfterConnect)

\* The caller connects once and then only uses the connection: it issues
\* requests and reads the state, and makes no further connect() or
\* disconnect() call.
NextCycle ==
  \/ NextAuto
  \/ GetConnectionState
  \/ Request(0)
  \/ SendGranted
  \/ SocketMessage(CoreFrames)

SpecCycle == Init /\ [][NextCycle]_vars

\* ------------------------------------------------- the reconnection delay
\* this.retry of the constructor: a delay of 0 (or none) takes the default
retryConfig(initialDelay, maxDelay) ==
  [initialDelayBetweenReconnects |-> IF initialDelay # 0 THEN initialDelay
                                     ELSE DEFAULT_INITIAL_DELAY,
   maxDelayBetweenReconnects |-> IF maxDelay # 0 THEN maxDelay ELSE DEFAULT_MAX_DELAY,
   jitterMs |-> jitterMs]

baseDelayUncapped(retry, attempt) ==
  retry.initialDelayBetweenReconnects * 2 ^ (attempt - 1)

baseDelay(retry, attempt) ==
  Min(retry.initialDelayBetweenReconnects * 2 ^ (attempt - 1),
      retry.maxDelayBetweenReconnects)

\* Math.floor(Math.random() * jitterMs), random in thousandths of [0, 1)
jitter(retry, random) ==
  IF retry.jitterMs # 0 THEN (random * retry.jitterMs) \div 1000 ELSE 0

InitialDelays == {0, 500, DEFAULT_INITIAL_DELAY, 40 * DEFAULT_INITIAL_DELAY}
MaxDelays == {0, DEFAULT_INITIAL_DELAY, DEFAULT_MAX_DELAY}
Randoms == {0, 1, 500, 999}

\* reconnect(), from its first line to the 'reconnecting' event
Backoff ==
  \E random \in Randoms :
    /\ last.op \in {"configured", "reconnecting"}
    /\ reconnectAttempts < MaxBackoffs
    /\ LET attempt == reconnectAttempts + 1
           base == baseDelay(last.retry, attempt)
           delay == base + jitter(last.retry, random)
           s == [St EXCEPT !.reconnectAttempts = attempt, !.connectionState = RECONNECTING]
       IN  Did(Emit(s, [type |-> "reconnecting", attempt |-> attempt, delay |-> delay]),
               [op |-> "reconnecting", retry |-> last.retry, attempt |-> attempt,
                baseDelay |-> base, delay |-> delay])

\* a client with any retry configuration, and the attempts of one cycle that
\* all fail
InitDelay ==
  /\ InitCorrelator(FALSE)
  /\ InitConnection
  /\ \E initialDelay \in InitialDelays, maxDelay \in MaxDelays :
       last = [op |-> "configured", retry |-> retryConfig(initialDelay, maxDelay)]

NextDelay == Backoff

SpecDelay == InitDelay /\ [][NextDelay]_vars

\* ------------------------------------------- the throttling manager at work
\* a request operation of a caller that does nothing else
BurstRequest ==
  /\ Len(requests) < MaxBurst
  /\ Did(sendMessage(St, 0), [op |-> "request", r |-> Len(requests) + 1])

\* time passes in steps of half a slot, up to the next moment a timer is due,
\* for as long as MaxBurst slots last
Elapse ==
  /\ ~MicrotaskPending
  /\ now < MaxBurst * minTimeBetweenRequests(St)
  /\ \A d \in Deadlines : d > now
  /\ Did([St EXCEPT !.now = Min(now + minTimeBetweenRequests(St) \div 2, Earliest(Deadlines))],
         [op |-> "elapse"])

\* An open connection with throttling at its default rate, over a stretch of
\* time shorter than any request timeout.
NextThrottle ==
  \/ BurstRequest
  \/ SendGranted
  \/ ThrottleTimeout
  \/ Elapse

SpecThrottle == InitOpen /\ [][NextThrottle]_vars

\* ================================================================== claims
Pending(r) == requests[r].status = "pending"
Emitted(e) == \E i \in DOMAIN events : events[i] = e
EmittedType(type) == \E i \in DOMAIN events : events[i].type = type

\* the attempt p is in flight: its promise is unsettled and its socket can
\* still report the outcome to it
InFlight(p) ==
  /\ attempts[p].promise = "pending"
  /\ attempts[p].ws # 0
  /\ adapters[attempts[p].ws].readyState = CONNECTING
  /\ Listener("open", "onOpen", p) \in Range(adapters[attempts[p].ws].listeners)

\* C1: in every interleaving at most one adapter the client created is in a
\* connection-establishment attempt, and a connect() made while an attempt is
\* in flight constructs no second adapter.
C1_SingleAttemptInFlight ==
  /\ Cardinality({p \in DOMAIN attempts : InFlight(p)}) <= 1
  /\ (last.op = "connect" /\ last.made = 1)
       => \A p \in DOMAIN attempts : InFlight(p) => p = Len(attempts)

\* the adapter a carries an established connection that no disconnect() is closing
Established(a) ==
  /\ ws = a
  /\ adapters[a].readyState \in {OPEN, CLOSING}
  /\ Listener("close", "handleWebSocketClose", 0) \in Range(adapters[a].listeners)
  /\ ~adapters[a].closeCalled
  /\ ~isGracefulDisconnect
  /\ \A k \in DOMAIN cleanups : cleanups[k].ws = a => cleanups[k].stage = "done"

\* C2: a close event of an established connection that disconnect() did not
\* initiate, whatever its code, emits 'disconnected' with gracefully = false,
\* rejects every pending request with a ConnectionError and starts a
\* reconnection cycle ('reconnecting' with attempt 1).
C2_UnexpectedCloseReconnects ==
  [][\A a \in DOMAIN adapters :
       (Established(a) /\ last'.op \in {"close", "error"} /\ last'.a = a)
         => /\ \E i \in DOMAIN events' :
                 events'[i].type = "disconnected" /\ ~events'[i].gracefully
            /\ \A r \in DOMAIN requests : Pending(r) =>
                 requests'[r].status = "rejected" /\ requests'[r].error = "ConnectionError"
            /\ \E i \in DOMAIN events' :
                 events'[i] = [type |-> "reconnecting", attempt |-> 1]]_vars

\* C3: once the caller's latest lifecycle call is disconnect(), the client
\* constructs no adapter and emits neither 'reconnecting' nor 'connected'.
C3_NoReconnectAfterDisconnect ==
  [][(asked = "disconnect" /\ asked' = "disconnect")
       => /\ Len(adapters') = Len(adapters)
          /\ Len(attempts') = Len(attempts)
          /\ \A i \in DOMAIN events' : events'[i].type \notin {"reconnecting", "connected"}]_vars

\* C4: a request operation that finds no open socket is rejected at once with
\* a ConnectionError.
C4_RejectOnClosedSocket ==
  (last.op = "send" /\ ~isWebSocketOpen(St))
    => /\ requests[last.r].status = "rejected"
       /\ requests[last.r].error = "ConnectionError"

\* C5: disconnect() with the default cancellation rejects every request that
\* is pending at the call with a ConnectionError, before its promise resolves,
\* and the pending table is empty when it resolves.
C5_DisconnectCancelsAll ==
  [][(last'.op = "disconnect" /\ last'.cancel)
       => /\ \A r \in DOMAIN requests : Pending(r) =>
               requests'[r].status = "rejected" /\ requests'[r].error = "ConnectionError"
          /\ last'.ret = 0 => messageMap' = {}]_vars

\* the request the answer m is matched to
Matched(r, m) == Pending(r) /\ requests[r].id = m.messageId

\* C6: whatever the order in which the answers arrive, an answer settles the
\* pending request whose correlation id it carries and leaves every other
\* request as it was.
C6_ResponseSettlesItsRequest ==
  [][last'.op = "message"
       => \A r \in DOMAIN requests :
            IF Matched(r, last'.m)
            THEN requests'[r].status # "pending" /\ requests'[r].settledBy = "response"
            ELSE requests'[r] = requests[r]]_vars

\* the second request was answered while the first one, issued earlier, waits
C6_OutOfOrderAnswer ==
  /\ last.op = "message"
  /\ Len(requests) = 2
  /\ requests[1].status = "pending"
  /\ requests[2].id = last.m.messageId
  /\ requests[2].id # requests[1].id
  /\ requests[2].settledBy = "response"

\* C7: on a connection that stays open, a request is rejected with a
\* TimeoutError no earlier than its own configured timeout, and the rejection
\* leaves the other pending requests pending with their timers armed.
C7_TimeoutAtOwnDeadline ==
  [][\A r \in DOMAIN requests :
       (Pending(r) /\ requests'[r].status = "rejected" /\ requests'[r].error = "TimeoutError")
         => /\ now' >= requests[r].timestamp
                         + (IF requests[r].timeoutMs # 0 THEN requests[r].timeoutMs
                            ELSE DEFAULT_TIMEOUTS_OPERATION)
            /\ \A q \in DOMAIN requests \ {r} :
                 Pending(q) => Pending(q)' /\ requests'[q].timer /\ has(St', requests[q].id)]_vars

\* C8: an answer matched to a pending request resolves it when the answer has
\* no error field and its status code is 200 or absent; any other answer
\* rejects it with an HPKVError that carries the answer's status code, or 500
\* when the code is absent or 0.
C8_ResponseOutcome ==
  [][last'.op = "message"
       => \A r \in DOMAIN requests :
            Matched(r, last'.m) =>
              LET m == last'.m
              IN  IF ~m.hasError /\ (~m.hasCode \/ m.code = OK)
                  THEN requests'[r].status = "resolved"
                  ELSE /\ requests'[r].status = "rejected"
                       /\ requests'[r].error = "HPKVError"
                       /\ requests'[r].code = IF m.hasCode /\ m.code # 0 THEN m.code
                                              ELSE FALLBACK_ERROR_CODE]_vars

\* an answer with status 200 and an error field has rejected its request
C8_RejectedDespite200 ==
  /\ last.op = "message"
  /\ last.m.hasCode /\ last.m.code = OK /\ last.m.hasError
  /\ \E r \in DOMAIN requests :
       /\ requests[r].id = last.m.messageId
       /\ requests[r].settledBy = "response"
       /\ requests[r].status = "rejected"
       /\ requests[r].error = "HPKVError"

\* C8 as stated: status 200 resolves, any other status rejects with an
\* HPKVError carrying that status.
C8_AsStated ==
  [][last'.op = "message"
       => \A r \in DOMAIN requests :
            (Matched(r, last'.m) /\ last'.m.hasCode) =>
              IF last'.m.code = OK
              THEN requests'[r].status = "resolved"
              ELSE /\ requests'[r].status = "rejected"
                   /\ requests'[r].error = "HPKVError"
                   /\ requests'[r].code = last'.m.code]_vars

\* C9: handling an answer with status 429 for a pending request runs
\* notify429 (outside a backoff window the current rate drops and a window
\* opens) and still rejects the request.
C9_RateLimitSignal ==
  [][(last'.op = "message" /\ last'.m.hasCode /\ last'.m.code = RATE_LIMITED)
       => \A r \in DOMAIN requests :
            Matched(r, last'.m) =>
              /\ requests'[r].status = "rejected"
              /\ now >= backoffUntil =>
                   /\ currentRate' = Max(throttlingConfig.rateLimit * 100, currentRate \div 2)
                   /\ backoffUntil' > now
                   /\ backoffExponent' = backoffExponent + 1]_vars

\* the cycle l has ended in one of its two outcomes
CycleEnded(l) ==
  /\ l \in DOMAIN loops
  /\ loops[l].pc = "done"
  /\ \/ connectionState = CONNECTED /\ loops[l].failed = 0
     \/ connectionState = DISCONNECTED /\ loops[l].failed = 1

\* C10: left to itself, every reconnection cycle an unexpected close starts
\* ends with the client Connected, or Disconnected after exactly one
\* 'reconnectFailed'.
C10_CycleEnds ==
  \A l \in 1..MaxLoops :
    (l \in DOMAIN loops /\ loops[l].pc # "done") ~> CycleEnded(l)

\* a cycle used up its attempts and gave up
C10_GaveUp ==
  /\ last.op = "reconnectAfterConnect"
  /\ loops[last.l].pc = "done"
  /\ loops[last.l].failed = 1
  /\ connectionState = DISCONNECTED
  /\ reconnectAttempts = maxReconnectAttempts

\* how the cycle l stood before the step, and how it stands after it
Was(l) == IF l \in DOMAIN loops THEN loops[l].pc ELSE "none"
EmittedNext(e) == \E i \in DOMAIN events' : events'[i] = e
Failed(p) == attempts[p].promise \in {"ConnectionError", "TimeoutError"}

\* C11: a reconnection cycle announces attempt 1 when it starts; each wait is
\* followed by one connection attempt; a failed attempt below the ceiling is
\* followed by the next attempt number; 'reconnectFailed' is emitted, and the
\* pending requests rejected, only when attempt maxReconnectAttempts failed.
C11_RetryCeiling ==
  [][/\ \A l \in DOMAIN loops' :
          /\ Was(l) = "none"
               => /\ loops'[l].pc = "waiting"
                  /\ EmittedNext([type |-> "reconnecting", attempt |-> 1])
          /\ (Was(l) = "waiting" /\ loops'[l].pc = "awaiting")
               => /\ Len(attempts') = Len(attempts) + 1
                  /\ loops'[l].awaiting = Len(attempts')
          /\ (Was(l) = "awaiting" /\ loops'[l].pc = "waiting")
               => /\ Failed(loops[l].awaiting)
                  /\ reconnectAttempts < maxReconnectAttempts
                  /\ reconnectAttempts' = reconnectAttempts + 1
                  /\ EmittedNext([type |-> "reconnecting", attempt |-> reconnectAttempts + 1])
          /\ (Was(l) = "awaiting" /\ loops'[l].pc = "done" /\ loops'[l].failed = 1)
               => /\ Failed(loops[l].awaiting)
                  /\ reconnectAttempts = maxReconnectAttempts
                  /\ EmittedNext([type |-> "reconnectFailed"])
                  /\ \A r \in DOMAIN requests : ~Pending(r)'
          /\ (Was(l) \in {"waiting", "awaiting"} /\ loops'[l].pc = Was(l)
                /\ (Was(l) = "awaiting" => AwaitedOutcome(St, l)' # "resolved"))
               => reconnectAttempts' = reconnectAttempts
     /\ EmittedNext([type |-> "reconnectFailed"])
          => \E l \in DOMAIN loops : loops[l].pc = "awaiting" /\ loops'[l].failed = 1
     /\ (\E n \in 0..MaxAttempts : EmittedNext([type |-> "reconnecting", attempt |-> n]))
          => \E l \in DOMAIN loops' : Was(l) \in {"none", "awaiting"} /\ loops'[l].pc = "waiting"]_vars

\* the last attempt the ceiling allows has been announced
C11_LastAttemptAnnounced ==
  /\ Emitted([type |-> "reconnecting", attempt |-> maxReconnectAttempts])
  /\ \E l \in DOMAIN loops : loops[l].pc = "waiting"

\* C12: over the attempts of one cycle the base delay
\* min(initialDelay * 2^(attempt - 1), maxDelay) never decreases and never
\* exceeds maxDelay, and the delay of each 'reconnecting' event is that base
\* delay plus a jitter in [0, jitterMs).
C12_BackoffDelay ==
  [][last'.op = "reconnecting"
       => /\ last'.baseDelay = Min(last'.retry.initialDelayBetweenReconnects
                                     * 2 ^ (last'.attempt - 1),
                                   last'.retry.maxDelayBetweenReconnects)
          /\ last'.baseDelay <= last'.retry.maxDelayBetweenReconnects
          /\ last.op = "reconnecting" =>
               /\ last'.attempt = last.attempt + 1
               /\ last'.baseDelay >= last.baseDelay
          /\ \E i \in DOMAIN events' :
               /\ events'[i].type = "reconnecting"
               /\ events'[i].attempt = last'.attempt
               /\ events'[i].delay - last'.baseDelay \in 0..(jitterMs - 1)]_vars

\* the delay has reached its cap and carries a jitter
C12_CappedWithJitter ==
  /\ last.op = "reconnecting"
  /\ last.attempt > 1
  /\ last.baseDelay = last.retry.maxDelayBetweenReconnects
  /\ last.retry.initialDelayBetweenReconnects < last.retry.maxDelayBetweenReconnects
  /\ last.delay > last.baseDelay

\* C13: whenever getConnectionStats() reports isConnected = true it reports
\* reconnectAttempts = 0.
C13_ConnectedMeansNoAttempts ==
  getConnectionStats(St).isConnected => getConnectionStats(St).reconnectAttempts = 0

\* a reconnection attempt has just succeeded and the statistics say connected
C13_ConnectedAgain ==
  /\ last.op = "open"
  /\ \E l \in DOMAIN loops : loops[l].pc = "awaiting" /\ AwaitedOutcome(St, l) = "resolved"
  /\ getConnectionStats(St).isConnected

\* ------------------------------------- the throttling manager, reconfigured
\* updateThrottlingConfig(config) of the client
Configs ==
  {[enabled |-> FALSE], [enabled |-> TRUE], [rateLimit |-> 5], [rateLimit |-> 20],
   [rateLimit |-> 0]}

UpdateThrottlingConfig ==
  \E config \in Configs :
    calls < MaxConfigs /\ Called(updateConfig(St, config), [op |-> "updateConfig", config |-> config])

ManagerRequest == Len(requests) < MaxQueued /\ BurstRequest

\* notify429() of the manager, as a rate-limit answer is meant to call it
Notify429 ==
  /\ now < backoffUntil \/ backoffExponent < MaxSignals
  /\ Did(notify429(St), [op |-> "notify429"])

\* the moments at which the manager's answer to a call changes
Moments ==
  {d \in Deadlines \cup {backoffUntil, nextAvailableSlotTime} : d > now /\ d <= Horizon}

\* time passes up to one of these moments, no further than the next timer
Pass ==
  /\ ~MicrotaskPending
  /\ now < Horizon
  /\ \A d \in Deadlines : d > now
  /\ \E t \in Moments :
       /\ t <= Earliest(Deadlines)
       /\ Did([St EXCEPT !.now = t], [op |-> "pass"])

\* An open connection whose throttling manager takes requests, 429 signals and
\* new configurations, over a stretch of time shorter than any request timeout.
NextManager ==
  \/ ManagerRequest
  \/ SendGranted
  \/ ThrottleTimeout
  \/ UpdateThrottlingConfig
  \/ Notify429
  \/ Pass

SpecManager == InitOpen /\ [][NextManager]_vars

\* The manager left to its configuration: requests, 429 signals, and the timers
\* and continuations the event loop is bound to run.
NextRecovery ==
  \/ ManagerRequest
  \/ SendGranted
  \/ ThrottleTimeout
  \/ Notify429
  \/ Pass

SpecRecovery ==
  /\ InitOpen
  /\ [][NextRecovery]_vars
  /\ WF_vars(SendGranted)
  /\ WF_vars(ThrottleTimeout)
  /\ WF_vars(Pass)

\* ------------------------------------------------- the client, destroyed
Destroy ==
  /\ asked # "destroy"
  /\ Did([destroy(St) EXCEPT !.asked = "destroy"], [op |-> "destroy"])

\* time passes up to the next timer of a request or of the throttle queue
Wait ==
  LET armed == {requests[r].deadline : r \in {q \in DOMAIN requests : requests[q].timer}}
                 \cup (IF throttleTimer.kind # "none" THEN {throttleTimer.due} ELSE {})
  IN  /\ ~MicrotaskPending
      /\ armed # {}
      /\ \A d \in armed : d > now
      /\ Did([St EXCEPT !.now = Earliest(armed)], [op |-> "wait"])

\* A connected client with throttling on: requests until destroy() is called,
\* one 429 signal and reconfigurations; every timer that is due runs and every
\* continuation runs.  All requests end before the first stale sweep is due.
NextRelease ==
  \/ (asked # "destroy" /\ Request(0))
  \/ SendGranted
  \/ ThrottleTimeout
  \/ RequestTimeout
  \/ (backoffExponent = 0 /\ Notify429)
  \/ UpdateThrottlingConfig
  \/ Destroy
  \/ Wait

SpecRelease ==
  /\ InitOpen
  /\ [][NextRelease]_vars
  /\ WF_vars(SendGranted)
  /\ WF_vars(ThrottleTimeout)
  /\ WF_vars(RequestTimeout)
  /\ WF_vars(Wait)

\* ------------------------------------------------- the subscription client
\* the strings Math.random().toString(36).substring(2, 15) may give
CallbackIds == {"k1", "k2", "k3"}

Subscribe ==
  \E callbackId \in CallbackIds :
    LET callback == calls + 1
        s == subscribe(St, callbackId, callback)
    IN  /\ calls < MaxSubscribes
        /\ Called([s EXCEPT !.registered = MapSet(@, s.ret, callback)],
                  [op |-> "subscribe", id |-> s.ret, callback |-> callback])

\* unsubscribe(id) with an id an earlier subscribe() returned
Unsubscribe ==
  \E i \in DOMAIN registered :
    LET callbackId == registered[i].id
    IN  Did([unsubscribe(St, callbackId) EXCEPT !.registered = MapDelete(@, callbackId),
                                                !.unsubscribed = @ \cup {registered[i].callback}],
            [op |-> "unsubscribe", id |-> callbackId])

\* a notification frame, or a response nobody waits for, arrives on the socket
SubscriptionFrames == {Frame("notification", 0, FALSE, 0, FALSE), Frame("", 1, TRUE, OK, FALSE)}

SocketFrame ==
  \E m \in SubscriptionFrames :
    /\ ~MicrotaskPending
    /\ ws # 0
    /\ adapters[ws].readyState = OPEN
    /\ \E l \in Range(adapters[ws].listeners) : l.ev = "message"
    /\ LET s == subscriptionHandleMessage(St, m)
       IN  Did(IF m.type = "notification"
               THEN [s EXCEPT !.notified = {registered[i].callback : i \in DOMAIN registered},
                              !.invoked = <<>>]
               ELSE s,
               [op |-> "frame", m |-> m])

\* the microtask Promise.resolve().then(() => callback(notification))
RunCallback ==
  /\ callbackJobs # <<>>
  /\ Did([St EXCEPT !.callbackJobs = Tail(@), !.invoked = Append(@, Head(callbackJobs))],
         [op |-> "callback", callback |-> Head(callbackJobs)])

\* A connected subscription client: the caller subscribes and unsubscribes,
\* also from inside a callback, while notifications arrive.
NextSubscription ==
  \/ Subscribe
  \/ Unsubscribe
  \/ SocketFrame
  \/ RunCallback

SpecSubscription == InitOpen /\ [][NextSubscription]_vars

\* ---------------------------------------------- a caller that listens
\* client.on(event, listener) for each of the client's events
Listen ==
  /\ ~heard.on
  /\ Did([St EXCEPT !.heard.on = TRUE], [op |-> "on"])

\* disconnect() of a connected client, by a caller that starts counting the
\* events from this call on
DisconnectWatched ==
  \E cancelPendingRequests \in BOOLEAN :
    /\ heard.on
    /\ heard.k = 0
    /\ getConnectionStats(St).isConnected
    /\ LET s == disconnect([St EXCEPT !.heard.log = <<>>], cancelPendingRequests)
       IN  Called([s EXCEPT !.asked = "disconnect", !.heard.k = s.ret],
                  [op |-> "disconnect", ret |-> s.ret, cancel |-> cancelPendingRequests])

\* A connected client and a peer that closes the connection when it pleases,
\* or answers the client's close, or stays silent; the caller only
\* disconnects.
NextHeard ==
  \/ Listen
  \/ DisconnectWatched
  \/ Disconnect
  \/ DisconnectFinally
  \/ CleanupTimeout
  \/ SocketClosing
  \/ SocketClose
  \/ SocketOpen
  \/ ConnectionTimeout
  \/ ReconnectDelayElapsed
  \/ ReconnectAfterConnect

SpecHeard == InitOpen /\ [][NextHeard]_vars

\* ---- the caller of one adapter
AdapterOn ==
  \E event \in HandledEvents \cup OtherEvents, listener \in Listeners :
    /\ Len(closures) < MaxWrappers
    /\ LET s == IWebSocket_on(St, event, listener)
       IN  Did([s EXCEPT !.owed = IF s.ret = "this"
                                  THEN [@ EXCEPT ![<<event, listener>>] = @ + 1] ELSE @],
               [op |-> "on", event |-> event, listener |-> listener, ret |-> s.ret])

AdapterRemoveListener ==
  \E event \in HandledEvents \cup OtherEvents, listener \in Listeners :
    LET s == IWebSocket_removeListener(St, event, listener)
    IN  Did([s EXCEPT !.owed = IF event \in HandledEvents /\ @[<<event, listener>>] > 0
                               THEN [@ EXCEPT ![<<event, listener>>] = @ - 1] ELSE @],
            [op |-> "removeListener", event |-> event, listener |-> listener, ret |-> s.ret])

AdapterRemoveAllListeners ==
  LET s == IWebSocket_removeAllListeners(St)
  IN  Did([s EXCEPT !.owed = [c \in DOMAIN @ |-> 0]],
          [op |-> "removeAllListeners", ret |-> s.ret])

NextAdapter ==
  \/ AdapterOn
  \/ AdapterRemoveListener
  \/ AdapterRemoveAllListeners

SpecAdapter == InitOpen /\ [][NextAdapter]_vars

\* the request r has been granted its slot and written to the socket
Sent(r) == requests[r].status \notin {"throttle", "granted"}

\* C14: at a constant rate, the slots of two requests are at least
\* 1000/rate ms apart for each place between them in call order, so the i-th
\* of a burst is granted no earlier than (i - 1) * 1000/rate ms after the first.
C14_SlotSpacing ==
  \A q, r \in DOMAIN requests :
    (q < r /\ Sent(q) /\ Sent(r))
      => requests[r].timestamp >= requests[q].timestamp + (r - q) * minTimeBetweenRequests(St)

\* a burst of three requests called at the same instant has been sent
C14_BurstSent ==
  /\ Len(requests) >= 3
  /\ Sent(1) /\ Sent(2) /\ Sent(3)
  /\ requests[3].timestamp = requests[1].timestamp + 2 * minTimeBetweenRequests(St)
  /\ last.op = "send" /\ last.r = 3

\* C15: the throttle queue is served first in, first out, one caller at a
\* time: a step grants a slot to at most one waiting caller, the one at the
\* head of the queue, and the callers behind it keep their order.
C15_QueueFifo ==
  [][\A r \in DOMAIN requests :
       (requests[r].status = "throttle" /\ requests'[r].status = "granted")
         => /\ throttleQueue # <<>>
            /\ r = Head(throttleQueue)
            /\ throttleQueue' = Tail(throttleQueue)
            /\ \A q \in DOMAIN requests \ {r} :
                 requests[q].status = "throttle" => requests'[q].status = "throttle"]_vars

\* the first of two queued callers has its slot; the second still waits
C15_HeadServedFirst ==
  /\ last.op = "throttleTimeout"
  /\ Len(requests) >= 3
  /\ requests[2].status = "granted"
  /\ requests[3].status = "throttle"
  /\ throttleQueue = <<3>>

\* C16: request frames are written to the socket in the order the operations
\* were called: whenever a request has been written, every request called
\* before it has been written too, none of them still waits for its slot.
C16_SentInCallOrder ==
  \A q, r \in DOMAIN requests : (q < r /\ Sent(r)) => Sent(q)

\* the configured rate ceiling, in 1/1000 requests per second
Ceiling ==
  1000 * (IF throttlingConfig.rateLimit # 0 THEN throttlingConfig.rateLimit
          ELSE DEFAULT_THROTTLING_rateLimit)

C18_RateUnderCeiling ==
  /\ [](currentRate <= Ceiling)
  /\ [][last'.op = "notify429" => currentRate' <= currentRate]_vars

\* after a request and a new ceiling of 20 req/s, a 429 signal has halved the rate
C18_HalvedUnderNewCeiling ==
  /\ last.op = "notify429"
  /\ Len(requests) >= 1
  /\ throttlingConfig.rateLimit = 20
  /\ currentRate = 10000
  /\ backoffUntil = now + 1000

\* C19: once a 429 signal has reduced the rate and its backoff window has
\* expired, the rate gets back to the configured ceiling, unless a further
\* 429 signal opens a new window first.
C19_RateRecovers ==
  [](  (currentRate < Ceiling /\ now >= backoffUntil)
     => <>(currentRate = Ceiling \/ now < backoffUntil))

\* C20: updateConfig with enabled = false resolves every caller waiting in
\* the throttle queue during the call, oldest first, and leaves the queue
\* empty; a throttleRequest() made while throttling is disabled resolves at
\* once and is never queued.
C20_DisableFlushes ==
  [][/\ (last'.op = "updateConfig" /\ throttlingConfig.enabled /\ ~throttlingConfig'.enabled)
         => /\ throttleQueue' = <<>>
            /\ granted' = granted \o throttleQueue
     /\ (last'.op = "request" /\ ~throttlingConfig.enabled)
         => /\ throttleQueue' = throttleQueue
            /\ granted' = Append(granted, Len(requests) + 1)]_vars

\* two callers queued behind a backoff window were flushed in their order,
\* and a third, calling right after the switch, follows them unqueued
C20_FlushedThenUnqueued ==
  /\ last.op = "request"
  /\ ~throttlingConfig.enabled
  /\ now < backoffUntil
  /\ granted = <<1, 2, 3>>
  /\ throttleQueue = <<>>

\* how many times the callback c occurs in the sequence q
Times(q, c) == Cardinality({i \in DOMAIN q : q[i] = c})

\* C21: a notification invokes each callback registered when it arrives
\* exactly once (the invocations are microtasks, counted with those still
\* queued), and no callback the caller had unsubscribed before it arrived.
C21_NotificationFanOut ==
  \A c \in 1..MaxSubscribes :
    /\ Times(invoked, c) + Times(callbackJobs, c) = (IF c \in notified THEN 1 ELSE 0)
    /\ (callbackJobs = <<>> /\ c \in notified) => Times(invoked, c) = 1
    /\ (c \in unsubscribed /\ c \notin notified) => Times(invoked, c) = 0

\* of three callbacks the second was unsubscribed; the notification that
\* followed has invoked the first and the third
C21_OnlyRemainingFire ==
  /\ last.op = "callback"
  /\ callbackJobs = <<>>
  /\ unsubscribed = {2}
  /\ notified = {1, 3}
  /\ invoked = <<1, 3>>

\* C22: the promise of disconnect() never rejects; while it is unresolved the
\* close-confirmation timer that resolves it is armed; and when it resolves
\* with no connect() called since, the client holds no socket and is
\* Disconnected.
C22_DisconnectResolves ==
  /\ [](\A k \in DOMAIN cleanups :
          /\ cleanups[k].stage \in {"waiting", "resolved", "done"}
          /\ cleanups[k].stage = "waiting" => cleanups[k].timer)
  /\ [][(\/ (last'.op = "disconnectFinally" /\ ~cleanups[last'.k].connectCalled)
          \/ (last'.op = "disconnect" /\ last'.ret = 0))
         => (ws' = 0 /\ connectionState' = DISCONNECTED)]_vars

\* how many events of the log satisfy P
Heard(P(_)) == Cardinality({i \in DOMAIN heard.log : P(heard.log[i])})

\* C23: when the promise of a disconnect() of a connected client resolves,
\* the client being Disconnected, the call has caused exactly one
\* 'disconnected' event, with gracefully = true, and no 'error',
\* 'reconnecting' or 'reconnectFailed' event.
C23_OneGracefulDisconnected ==
  (heard.k # 0 /\ last.op = "disconnectFinally" /\ last.k = heard.k)
    => /\ connectionState = DISCONNECTED
       /\ Heard(LAMBDA e : e.type = "disconnected") = 1
       /\ Heard(LAMBDA e : e.type = "disconnected" /\ e.gracefully) = 1
       /\ Heard(LAMBDA e : e.type \in {"error", "reconnecting", "reconnectFailed"}) = 0

\* the adapter of attempt p still carries a listener of that attempt
AttemptListens(p) ==
  /\ attempts[p].ws # 0
  /\ \E l \in Range(adapters[attempts[p].ws].listeners) :
       l.id = p /\ l.h \in {"onOpen", "onErrorDuringConnect", "onCloseDuringConnect"}

\* C24: when the connection timer of an attempt fires before its adapter has
\* reported open, the connect() promise rejects with a TimeoutError, the
\* attempt's listeners are removed, the client holds no socket and its state
\* is Disconnected.
C24_ConnectTimeoutAborts ==
  [][\A p \in DOMAIN attempts :
       (last'.op = "connectionTimeout" /\ last'.p = p /\ attempts[p].promise = "pending")
         => /\ attempts'[p].promise = "TimeoutError"
            /\ ~AttemptListens(p)'
            /\ ws' = 0
            /\ connectionState' = DISCONNECTED]_vars

\* the timer of a caller's attempt has fired while its socket was connecting
C24_TimedOut ==
  /\ last.op = "connectionTimeout"
  /\ attempts[last.p].promise = "TimeoutError"
  /\ adapters[attempts[last.p].ws].readyState = CONNECTING
  /\ adapters[attempts[last.p].ws].listeners = <<>>
  /\ ws = 0

\* C25: an error or close event of an attempt's adapter, delivered before the
\* adapter opened, rejects the connect() promise with a ConnectionError, emits
\* exactly one 'error' event, starts no reconnection, and leaves the client
\* Disconnected without a socket.
C25_FailureDuringConnect ==
  [][\A p \in DOMAIN attempts :
       (/\ last'.op \in {"error", "close"}
        /\ last'.a = attempts[p].ws
        /\ attempts[p].promise = "pending"
        /\ adapters[attempts[p].ws].readyState = CONNECTING)
         => /\ attempts'[p].promise = "ConnectionError"
            /\ Cardinality({i \in DOMAIN events' : events'[i].type = "error"}) = 1
            /\ Len(loops') = Len(loops)
            /\ \A i \in DOMAIN events' : events'[i].type # "reconnecting"
            /\ connectionState' = DISCONNECTED
            /\ ws' = 0]_vars

\* the attempts whose adapter reports open in the step: the connections established
Establishments ==
  {p \in DOMAIN attempts : attempts[p].promise = "pending" /\ attempts'[p].promise = "resolved"}

\* C26: each connection establishment, by a caller's connect() or by the
\* reconnection loop, emits exactly one 'connected' event, with the state
\* Connected; no 'connected' event is emitted otherwise.
C26_OneConnectedEvent ==
  [][/\ Cardinality({i \in DOMAIN events' : events'[i].type = "connected"})
          = Cardinality(Establishments)
     /\ Establishments # {} => connectionState' = CONNECTED]_vars

\* C27: getConnectionState() and the request operations (the call and its
\* continuation after the throttling slot) leave the connection state as it was.
C27_ReadsLeaveState ==
  [][last'.op \in {"getConnectionState", "request", "send"}
       => connectionState' = connectionState]_vars

\* the reconnection cycle l has started and has neither connected nor given up
CycleActive(l) ==
  \/ loops[l].pc = "waiting"
  \/ loops[l].pc = "awaiting" /\ AwaitedOutcome(St, l) = "pending"

\* C28: while a reconnection cycle is active, getConnectionState() reports
\* RECONNECTING, or CONNECTING while an attempt's socket is opening, and never
\* DISCONNECTED.
C28_ReconnectingReported ==
  (last.op = "getConnectionState" /\ \E l \in DOMAIN loops : CycleActive(l))
    => connectionState \in {RECONNECTING, CONNECTING_STATE}

\* C29: every pending request holds its own entry of the pending table, also
\* when the id counter starts over at 1: no request is given the id of a
\* request that is still pending, and registerRequest overwrites no entry.
C29_NoIdReuseWhilePending ==
  /\ \A r \in DOMAIN requests :
       Pending(r) => [id |-> requests[r].id, req |-> r] \in messageMap
  /\ \A r, q \in DOMAIN requests :
       (Pending(r) /\ Pending(q) /\ r # q) => requests[r].id # requests[q].id

\* the counter started over while the request with the last id before the
\* wrap was still pending
C29_WrappedWhilePending ==
  \E r, q \in DOMAIN requests :
    /\ Pending(r) /\ requests[r].id = WrapEdge
    /\ Pending(q) /\ requests[q].id = 1
    /\ messageId = 1

\* the wrappers on the underlying socket that on(event, listener) created
WrappersFor(event, listener) ==
  {i \in DOMAIN rawListeners[event] :
     closures[rawListeners[event][i]] = [event |-> event, original |-> listener]}

SlotGranted ==
  \E r \in DOMAIN requests' :
    /\ requests'[r].status = "granted"
    /\ r \in DOMAIN requests => requests[r].status = "throttle"

\* C31: with throttling enabled, no caller gets its send slot while a 429
\* backoff window is open (now < backoffUntil), whether it asked before or
\* after the signal.
C31_NoSlotDuringBackoff ==
  [][(throttlingConfig.enabled /\ throttlingConfig'.enabled
        /\ now < backoffUntil /\ now' < backoffUntil')
       => ~SlotGranted]_vars

\* the frame m is no answer to a pending request
Unmatched(m) == isNotification(m) \/ m.messageId = 0 \/ ~has(St, m.messageId)

\* C32: a frame that is notification-shaped (whatever messageId it carries),
\* has no id, or has an id that is not in the pending table is reported as
\* not handled and leaves the pending table, the timers and the callers'
\* promises as they were.
C32_UnmatchedFrameIgnored ==
  [][(last'.op = "message" /\ Unmatched(last'.m))
       => /\ last'.handled = FALSE
          /\ messageMap' = messageMap
          /\ requests' = requests]_vars

\* a notification carrying the id of a pending request has arrived, and so
\* has an answer to a request that had timed out
C32_NotificationWithPendingId ==
  /\ last.op = "message"
  /\ isNotification(last.m)
  /\ has(St, last.m.messageId)
  /\ \E r \in DOMAIN requests : requests[r].settledBy = "timer"

\* the entry of request r is in the pending table
Held(map, r) == \E e \in map : e.req = r

\* C33: a run of the stale sweep rejects with a TimeoutError and removes the
\* pending entries older than 3 operation timeouts, clearing their timers, and
\* leaves every younger entry, its timer and its promise as they were.
C33_SweepTakesTheStale ==
  [][last'.op = "sweep" =>
       \A r \in DOMAIN requests :
         Held(messageMap, r) =>
           IF now - requests[r].timestamp > 3 * DEFAULT_TIMEOUTS_OPERATION
           THEN /\ ~Held(messageMap', r)
                /\ requests'[r].status = "rejected"
                /\ requests'[r].error = "TimeoutError"
                /\ ~requests'[r].timer
           ELSE /\ Held(messageMap', r)
                /\ requests'[r] = requests[r]]_vars

\* a sweep has taken one request and left a younger one pending
C33_SweptOneLeftOne ==
  /\ last.op = "sweep"
  /\ \E r, q \in DOMAIN requests :
       /\ requests[r].settledBy = "sweep"
       /\ Pending(q) /\ Held(messageMap, q) /\ requests[q].timer

\* what settles a registered request
Ways == {"response", "timer", "cancel", "cancelAll", "sweep"}

C35_ConnectSettles ==
  \A p \in 1..MaxAttempts :
    (p \in DOMAIN attempts /\ attempts[p].promise = "pending")
      ~> (p \in DOMAIN attempts /\ attempts[p].promise # "pending")

Settled(r) == r \in DOMAIN requests /\ requests[r].status \in {"resolved", "rejected"}

\* C36: the promise of every request operation is eventually resolved or
\* rejected: its caller gets a throttling slot, also across backoff windows,
\* reconfigurations and destroy(), and the registered request is settled.
C36_RequestSettles ==
  \A r \in 1..MaxRequests : (r \in DOMAIN requests) ~> Settled(r)

\* both requests are settled after a backoff window, a reconfiguration that
\* switched throttling off, and destroy()
C36_SettledAcrossAll ==
  /\ asked = "destroy"
  /\ backoffExponent > 0
  /\ ~throttlingConfig.enabled
  /\ \A r \in 1..MaxRequests : Settled(r)
  /\ \E r \in 1..MaxRequests : requests[r].timestamp > 0 /\ requests[r].settledBy = "timer"

\* C39: once destroy() has returned, and with no request made after it, the
\* pending table and the throttle queue are empty and stay empty: the
\* requests pending at the call are rejected and the callers released from
\* the throttle queue leave no pending entry behind.
C39_NothingLeftAfterDestroy ==
  asked = "destroy" => (messageMap = {} /\ throttleQueue = <<>>)

\* C37: an event of a socket adapter that is not the client's current adapter
\* leaves the current adapter (its listeners included), the client's hold on
\* it, the connection state and the current attempt's promise as they were.
C37_StaleEventLeavesCurrent ==
  [][(last'.op \in {"open", "error", "close", "message"} /\ ws # 0 /\ last'.a # ws)
       => /\ ws' = ws
          /\ adapters'[ws] = adapters[ws]
          /\ connectionState' = connectionState
          /\ connectionPromise' = connectionPromise
          /\ connectionPromise # 0 =>
               attempts'[connectionPromise] = attempts[connectionPromise]]_vars


\* C38: at most one reconnection cycle is waiting for its delay or awaiting its
\* attempt at any time.
C38_OneCycleActive ==
  Cardinality({l \in DOMAIN loops : CycleActive(l)}) <= 1

\* C40: every socket adapter constructed so far is the client's current adapter,
\* or close() was called on it, or its close event has been delivered.
C40_NoSocketAbandoned ==
  \A a \in DOMAIN adapters :
    a = ws \/ adapters[a].closeCalled \/ adapters[a].readyState = CLOSED

====
